---- MODULE Spec2Model ----
(***************************************************************************)
(* QuantumTradePro server: the in-memory store (MemStorage), the REST      *)
(* handlers of registerRoutes as interleaved request steps (one step per   *)
(* resumption after an await), and the technical-indicator functions of    *)
(* StockService.                                                           *)
(*                                                                         *)
(* Numbers are exact rationals [n, d] in lowest terms with d > 0; the IEEE *)
(* value NaN is the record with d = 0.  A bar is represented by its close  *)
(* (calculateTechnicalIndicators reads nothing else of a bar that reaches  *)
(* its result), in whole currency units.  Time is in milliseconds.         *)
(***************************************************************************)
EXTENDS Integers, Sequences, FiniteSets, TLC

(* ------------------------------------------------------------------ *)
(* Numbers                                                            *)
(* ------------------------------------------------------------------ *)

NaN == [n |-> 0, d |-> 0]

IsNaN(x) == x.d = 0

Abs(i) == IF i < 0 THEN -i ELSE i

RECURSIVE Gcd(_, _)
Gcd(a, b) == IF b = 0 THEN a ELSE Gcd(b, a % b)

\* the rational p/q (q # 0) in lowest terms with a positive denominator
Rat(p, q) ==
  LET g == Gcd(Abs(p), Abs(q))
      s == IF q < 0 THEN -1 ELSE 1
  IN  [n |-> (s * p) \div g, d |-> (s * q) \div g]

Num(i) == [n |-> i, d |-> 1]

\* sums go over the least common denominator and products cancel crosswise
\* first, which keeps the intermediate integers small
Add(x, y) ==
  IF IsNaN(x) \/ IsNaN(y) THEN NaN
  ELSE LET g == Gcd(x.d, y.d)
       IN  Rat(x.n * (y.d \div g) + y.n * (x.d \div g), (x.d \div g) * y.d)

Sub(x, y) == IF IsNaN(y) THEN NaN ELSE Add(x, [n |-> -y.n, d |-> y.d])

Mul(x, y) ==
  IF IsNaN(x) \/ IsNaN(y) THEN NaN
  ELSE LET g1 == Gcd(Abs(x.n), y.d)
           g2 == Gcd(Abs(y.n), x.d)
       IN  [n |-> (x.n \div g1) * (y.n \div g2), d |-> (x.d \div g2) * (y.d \div g1)]

\* JavaScript division: 0/0 is NaN; no other division by zero occurs in the
\* modelled code (every other divisor is a positive constant or is tested)
Div(x, y) ==
  IF IsNaN(x) \/ IsNaN(y) \/ y.n = 0 THEN NaN
  ELSE Mul(x, IF y.n < 0 THEN [n |-> -y.d, d |-> -y.n] ELSE [n |-> y.d, d |-> y.n])

\* comparisons of non-NaN numbers
Lt(x, y) == LET g == Gcd(x.d, y.d) IN x.n * (y.d \div g) < y.n * (x.d \div g)

Le(x, y) == LET g == Gcd(x.d, y.d) IN x.n * (y.d \div g) <= y.n * (x.d \div g)

\* round(100 * p / q) for p >= 0, q > 0, a tie going up; by long division,
\* so that no intermediate value exceeds 10 * q
Hundredths(p, q) ==
  LET r0 == p % q
      d1 == (10 * r0) \div q
      r1 == (10 * r0) % q
      d2 == (10 * r1) \div q
      r2 == (10 * r1) % q
  IN  100 * (p \div q) + 10 * d1 + d2 + (IF r2 + r2 >= q THEN 1 ELSE 0)

\* Number(x.toFixed(2)): the nearest multiple of 1/100 of |x|, the larger one
\* on a tie, with the sign of x; NaN stays NaN
ToFixed2(x) ==
  IF IsNaN(x) THEN NaN
  ELSE IF x.n < 0 THEN Rat(-Hundredths(-x.n, x.d), 100)
       ELSE Rat(Hundredths(x.n, x.d), 100)

(* ------------------------------------------------------------------ *)
(* Sequence helpers (Array.prototype)                                 *)
(* ------------------------------------------------------------------ *)

\* variant: the first k elements
SliceFirst(s, k) ==
  IF k >= Len(s) THEN s ELSE SubSeq(s, 1, k)

\* prices.slice(-k): the last k elements, all of them when k >= length;
\* slice(-0) is slice(0), the whole array
SliceLast(s, k) ==
  IF k <= 0 \/ k >= Len(s) THEN s ELSE SubSeq(s, Len(s) - k + 1, Len(s))

\* the sum of s[lo..hi], by halves (the sum of exact values does not depend
\* on the order of the additions)
RECURSIVE SumRange(_, _, _)
SumRange(s, lo, hi) ==
  IF lo > hi THEN Num(0)
  ELSE IF lo = hi THEN s[lo]
       ELSE LET mid == (lo + hi) \div 2
            IN  Add(SumRange(s, lo, mid), SumRange(s, mid + 1, hi))

\* s.reduce((a, b) => a + b, 0)
SumSeq(s) == SumRange(s, 1, Len(s))

\* closes as numbers
ToNums(closes) == [i \in 1..Len(closes) |-> Num(closes[i])]

(* ------------------------------------------------------------------ *)
(* StockService: technical indicators                                 *)
(* ------------------------------------------------------------------ *)

RSI_PERIOD == 14

BB_PERIOD == 20

\* variant: an empty array gives 0
calculateSMAOrZero(prices, period) ==
  LET p     == IF Len(prices) < period THEN Len(prices) ELSE period
      slice == SliceLast(prices, p)
  IN  IF Len(slice) = 0 THEN Num(0) ELSE Div(SumSeq(slice), Num(Len(slice)))

\* calculateSMA(prices, period): mean of the last min(period, length)
\* elements; an empty array gives 0 / 0 = NaN
calculateSMA(prices, period) ==
  LET p     == IF Len(prices) < period THEN Len(prices) ELSE period
      slice == SliceLast(prices, p)
  IN  Div(SumSeq(slice), Num(Len(slice)))

\* variant: the smoothing factor is 2 / period
RECURSIVE EmaFoldWide(_, _, _)
EmaFoldWide(ema, rest, period) ==
  IF rest = <<>> THEN ema
  ELSE LET k    == Rat(2, period)
           next == Add(Mul(rest[1], k), Mul(ema, Sub(Num(1), k)))
       IN  IF IsNaN(next) THEN NaN ELSE EmaFoldWide(next, Tail(rest), period)

\* the loop of calculateEMA: ema = prices[i] * k + ema * (1 - k), k = 2 / (period + 1);
\* once NaN, ema stays NaN to the end of the loop
RECURSIVE EmaFold(_, _, _)
EmaFold(ema, rest, period) ==
  IF rest = <<>> THEN ema
  ELSE LET k    == Rat(2, period + 1)
           next == Add(Mul(rest[1], k), Mul(ema, Sub(Num(1), k)))
       IN  IF IsNaN(next) THEN NaN ELSE EmaFold(next, Tail(rest), period)

\* variant: every element weighs the same
calculateEMAUnweighted(prices, period) ==
  IF Len(prices) = 0 THEN Num(0) ELSE Div(SumSeq(prices), Num(Len(prices)))

\* variant: the loop runs over the last period elements only
calculateEMAWindowed(prices, period) ==
  IF Len(prices) = 0 THEN Num(0)
  ELSE EmaFold(SliceLast(prices, period)[1], Tail(SliceLast(prices, period)), period)

\* variant: no early return for an empty array, prices[0] is undefined and
\* the result is not a number
calculateEMAUnguarded(prices, period) ==
  IF Len(prices) = 0 THEN NaN ELSE EmaFold(prices[1], Tail(prices), period)

\* calculateEMA(prices, period): 0 for an empty array
calculateEMA(prices, period) ==
  IF Len(prices) = 0 THEN Num(0) ELSE EmaFold(prices[1], Tail(prices), period)

calculateMACD(prices) ==
  LET ema12    == calculateEMA(prices, 12)
      ema26    == calculateEMA(prices, 26)
      macdLine == Sub(ema12, ema26)
  IN  [value     |-> ToFixed2(macdLine),
       signal    |-> ToFixed2(Mul(macdLine, Rat(8, 10))),
       histogram |-> ToFixed2(Mul(macdLine, Rat(2, 10)))]

\* variant: each change taken the other way round
ChangesBackward(prices) == [i \in 1..(Len(prices) - 1) |-> Sub(prices[i], prices[i + 1])]

\* changes[i] = prices[i + 1] - prices[i]
Changes(prices) == [i \in 1..(Len(prices) - 1) |-> Sub(prices[i + 1], prices[i])]

RECURSIVE SumGains(_)
SumGains(cs) ==
  IF cs = <<>> THEN Num(0)
  ELSE IF Lt(Num(0), cs[1]) THEN Add(cs[1], SumGains(Tail(cs))) ELSE SumGains(Tail(cs))

\* variant: the losses keep their sign (no Math.abs)
RECURSIVE SumLossesSigned(_)
SumLossesSigned(cs) ==
  IF cs = <<>> THEN Num(0)
  ELSE IF Lt(cs[1], Num(0)) THEN Add(cs[1], SumLossesSigned(Tail(cs)))
       ELSE SumLossesSigned(Tail(cs))

RECURSIVE SumLosses(_)
SumLosses(cs) ==
  IF cs = <<>> THEN Num(0)
  ELSE IF Lt(cs[1], Num(0)) THEN Add(Sub(Num(0), cs[1]), SumLosses(Tail(cs)))
       ELSE SumLosses(Tail(cs))

\* variant: gains and losses are taken over all the changes
calculateRSIAllChanges(prices) ==
  IF Len(prices) < RSI_PERIOD + 1 THEN Num(50)
  ELSE LET avgGain == Div(SumGains(Changes(prices)), Num(RSI_PERIOD))
           avgLoss == Div(SumLosses(Changes(prices)), Num(RSI_PERIOD))
       IN  IF avgLoss.n = 0 THEN Num(100)
           ELSE Sub(Num(100), Div(Num(100), Add(Num(1), Div(avgGain, avgLoss))))

\* variant: no neutral value for a short series
calculateRSINoFallback(prices) ==
  LET last    == SliceLast(Changes(prices), RSI_PERIOD)
      avgGain == Div(SumGains(last), Num(RSI_PERIOD))
      avgLoss == Div(SumLosses(last), Num(RSI_PERIOD))
  IN  IF avgLoss.n = 0 THEN Num(100)
      ELSE Sub(Num(100), Div(Num(100), Add(Num(1), Div(avgGain, avgLoss))))

\* calculateRSI(prices, period = 14); a sum over no gains (losses) is 0, as
\* is the average the code then assigns
calculateRSI(prices) ==
  IF Len(prices) < RSI_PERIOD + 1 THEN Num(50)
  ELSE LET last    == SliceLast(Changes(prices), RSI_PERIOD)
           avgGain == Div(SumGains(last), Num(RSI_PERIOD))
           avgLoss == Div(SumLosses(last), Num(RSI_PERIOD))
       IN  IF avgLoss.n = 0 THEN Num(100)
           ELSE LET rs == Div(avgGain, avgLoss)
                IN  Sub(Num(100), Div(Num(100), Add(Num(1), rs)))

RECURSIVE SumSqDev(_, _)
SumSqDev(s, m) ==
  IF s = <<>> THEN Num(0)
  ELSE Add(Mul(Sub(s[1], m), Sub(s[1], m)), SumSqDev(Tail(s), m))

Floor(x) == x.n \div x.d

\* the largest integer r with r <= a + sgn * sqrt(w), for w >= 0 and sgn in {1, -1}
RECURSIVE FloorSqrtUp(_, _, _)
FloorSqrtUp(r, a, w) ==
  LET t == Sub(Num(r + 1), a)
  IN  IF Le(t, Num(0)) \/ Le(Mul(t, t), w) THEN FloorSqrtUp(r + 1, a, w) ELSE r

RECURSIVE FloorSqrtDown(_, _, _)
FloorSqrtDown(r, a, w) ==
  LET t == Sub(a, Num(r))
  IN  IF Le(Num(0), t) /\ Le(w, Mul(t, t)) THEN r ELSE FloorSqrtDown(r - 1, a, w)

\* the largest integer e in lo..(hi - 1) with e * e <= x, for lo * lo <= x < hi * hi
RECURSIVE Root(_, _, _)
Root(lo, hi, x) ==
  IF hi - lo <= 1 THEN lo
  ELSE LET mid == (lo + hi) \div 2
       IN  IF mid * mid <= x THEN Root(mid, hi, x) ELSE Root(lo, mid, x)

\* variant: the deviation is left out of the edge
BandEdgeFlat(x, v, sgn) == ToFixed2(x)

\* Number((x + sgn * sqrt(v) * 2).toFixed(2)) = floor(100 x + sgn * sqrt(40000 v) + 1/2) / 100
\* (the edges are positive); the search starts within one of the result
BandEdge(x, v, sgn) ==
  IF IsNaN(x) \/ IsNaN(v) THEN NaN
  ELSE LET a == Add(Mul(Num(100), x), Rat(1, 2))
           w == Mul(Num(40000), v)
           e == Root(0, 46340, Floor(w))
       IN  IF sgn > 0 THEN Rat(FloorSqrtUp(Floor(a) + e, a, w), 100)
           ELSE Rat(FloorSqrtDown(Floor(a) - e, a, w), 100)

\* variant: the deviation is subtracted for the upper edge and added for the
\* lower one
calculateBollingerBandsSwapped(prices) ==
  LET sma      == calculateSMA(prices, BB_PERIOD)
      slice    == SliceLast(prices, BB_PERIOD)
      variance == IF slice = <<>> THEN Num(0)
                  ELSE Div(SumSqDev(slice, sma), Num(BB_PERIOD))
  IN  [upper  |-> BandEdge(sma, variance, -1),
       middle |-> ToFixed2(sma),
       lower  |-> BandEdge(sma, variance, 1)]

\* calculateBollingerBands(prices, period = 20): the variance divides by
\* period, whatever the length of the slice
calculateBollingerBands(prices) ==
  LET sma      == calculateSMA(prices, BB_PERIOD)
      slice    == SliceLast(prices, BB_PERIOD)
      variance == IF slice = <<>> THEN Num(0)
                  ELSE Div(SumSqDev(slice, sma), Num(BB_PERIOD))
  IN  [upper  |-> BandEdge(sma, variance, 1),
       middle |-> ToFixed2(sma),
       lower  |-> BandEdge(sma, variance, -1)]

Min(a, b) == IF a < b THEN a ELSE b

\* the movingAverages object of the snapshot
movingAverages(closes) ==
  [ma20  |-> calculateSMA(closes, 20),
   ma50  |-> calculateSMA(closes, 50),
   ma200 |-> calculateSMA(closes, Min(200, Len(closes)))]

\* variant: the snapshot carries no time of its own
calculateTechnicalIndicatorsUndated(bars, symbol, t) ==
  LET closes == ToNums(bars)
  IN  [symbol         |-> symbol,
       rsi            |-> calculateRSI(closes),
       macd           |-> calculateMACD(closes),
       movingAverages |-> movingAverages(closes),
       bollingerBands |-> calculateBollingerBands(closes),
       lastUpdated    |-> 0]

\* calculateTechnicalIndicators(prices, symbol), evaluated at time t
\* (lastUpdated: new Date()); throws nothing
calculateTechnicalIndicators(bars, symbol, t) ==
  LET closes == ToNums(bars)
  IN  [symbol         |-> symbol,
       rsi            |-> calculateRSI(closes),
       macd           |-> calculateMACD(closes),
       movingAverages |-> movingAverages(closes),
       bollingerBands |-> calculateBollingerBands(closes),
       lastUpdated    |-> t]

(* ------------------------------------------------------------------ *)
(* Bounds and inputs                                                  *)
(* ------------------------------------------------------------------ *)

\* how many times the clock advances in a run
MaxTicks == 2

\* how many requests arrive, one after the other, in a sequential run
MaxRequests == 2

\* the clock advances by one of these amounts (ms): the staleness boundaries
\* of the indicator cache
TickSteps == {1, 300000}

\* the same for the quote and news routes
FeedTickSteps == {1, 60000, 900000}

\* the :symbol parameter as sent; the handlers parse raw.toUpperCase()
RawSymbols == {"tcs", "?"}

ToUpperCase(raw) == IF raw = "tcs" THEN "TCS" ELSE raw

\* symbols that stockSymbolSchema accepts: /^[A-Z0-9\s\.\-]+$/, 1..20
\* characters ("?" is not one); the store is keyed by them
Symbols == {"TCS", "INFY"}

SymbolOk(sym) == sym \in Symbols

Timeframes == {"1D", "1M"}

\* what stockService.getHistoricalPrices can resolve to: bars, or [] on failure
HistResults == {<<>>, <<3>>, <<1, 3, 2>>}

\* variant: fetched bars are used without the length test
HasBarsUnchecked(prices) == TRUE

\* prices.length > 0, the test every handler makes on fetched bars
HasBars(prices) == Len(prices) > 0

\* what stockService.getCurrentPrice can resolve to: a price, or null (0 here)
PriceResults == {0, 2850}

\* what stockService.getStockNews can resolve to: item ids, or [] on failure
NewsResults == {<<>>, <<"n1">>}

\* two request handlers, interleaved at their awaits: "a" is the request that
\* arrives first, "b" the one that arrives second (while "a" is in flight or
\* after it has answered).  A sequential run reuses slot "a".
Reqs == {"a", "b"}

\* calculateTechnicalIndicators is pure in (bars, symbol) up to its
\* timestamp: the handlers look its numeric fields up in this table
SnapshotTable == [b \in HistResults |-> calculateTechnicalIndicators(b, "", 0)]

Snapshot(bars, symbol, t) ==
  [SnapshotTable[bars] EXCEPT !.symbol = symbol, !.lastUpdated = t]

(* ------------------------------------------------------------------ *)
(* State                                                              *)
(* ------------------------------------------------------------------ *)

VARIABLES
  now,                  \* Date.now()
  ticks,                \* clock advances so far
  stockPrices,          \* MemStorage.stockPrices
  historicalPrices,     \* MemStorage.historicalPrices
  technicalIndicators,  \* MemStorage.technicalIndicators
  news,                 \* MemStorage.news
  aiRecommendations,    \* MemStorage.aiRecommendations
  req,                  \* the handlers in flight, one record per slot
  lastSet,              \* per map and key, the value of the latest set call
  started,              \* requests arrived so far
  probe                 \* the call under study when an operation runs on its own

vars == <<now, ticks, stockPrices, historicalPrices, technicalIndicators, news,
          aiRecommendations, req, lastSet, started, probe>>

store == <<stockPrices, historicalPrices, technicalIndicators, news, aiRecommendations>>

\* An optional value (T | undefined) is <<>> or <<v>>.
None == <<>>

Some(v) == <<v>>

(* ------------------------------------------------------------------ *)
(* MemStorage                                                         *)
(* ------------------------------------------------------------------ *)

getStockPrice(m, symbol) == m[symbol]

setStockPrice(m, stockPrice) == [m EXCEPT ![stockPrice.symbol] = Some(stockPrice)]

\* symbolData?.get(timeframe) || []
getHistoricalPrices(m, symbol, timeframe) ==
  IF m[symbol] = None THEN <<>>
  ELSE IF m[symbol][1][timeframe] = None THEN <<>>
       ELSE m[symbol][1][timeframe][1]

\* variant: a new inner Map on every call
setHistoricalPricesNewMap(m, symbol, timeframe, prices) ==
  [m EXCEPT ![symbol] =
     Some([tf \in Timeframes |-> IF tf = timeframe THEN Some(prices) ELSE None])]

\* creates the symbol's inner Map when missing, then sets the timeframe
setHistoricalPrices(m, symbol, timeframe, prices) ==
  LET inner == IF m[symbol] = None THEN [tf \in Timeframes |-> None] ELSE m[symbol][1]
  IN  [m EXCEPT ![symbol] = Some([inner EXCEPT ![timeframe] = Some(prices)])]

getTechnicalIndicators(m, symbol) == m[symbol]

\* variants: an entry once set is kept; the new snapshot is merged into the
\* entry, whose macd stays
setTechnicalIndicatorsKeep(m, indicators) ==
  IF m[indicators.symbol] = None THEN [m EXCEPT ![indicators.symbol] = Some(indicators)]
  ELSE m

setTechnicalIndicatorsMerge(m, indicators) ==
  LET old == m[indicators.symbol]
  IN  [m EXCEPT ![indicators.symbol] =
         IF old = None THEN Some(indicators)
         ELSE Some([indicators EXCEPT !.macd = old[1].macd])]

setTechnicalIndicators(m, indicators) == [m EXCEPT ![indicators.symbol] = Some(indicators)]

\* this.news.get(symbol) || []
getNews(m, symbol) == IF m[symbol] = None THEN <<>> ELSE m[symbol][1]

setNews(m, symbol, items) == [m EXCEPT ![symbol] = Some(items)]

getAIRecommendation(m, symbol) == m[symbol]

setAIRecommendation(m, recommendation) ==
  [m EXCEPT ![recommendation.symbol] = Some(recommendation)]

(* ------------------------------------------------------------------ *)
(* Request handlers                                                   *)
(* ------------------------------------------------------------------ *)

TTL_PRICE == 60000

TTL_INDICATORS == 300000

TTL_RECOMMENDATION == 3600000

\* variants of the staleness test: stale from the TTL on, the subtraction
\* turned round, and no test at all
IsStaleFromTtl(entry, stamp, t, ttl) == entry = None \/ (t - stamp) >= ttl

IsStaleTurned(entry, stamp, t, ttl) == entry = None \/ (stamp - t) > ttl

IsStaleAlways(entry, stamp, t, ttl) == TRUE

\* !entry || (Date.now() - entry.<timestamp>.getTime()) > ttl
IsStale(entry, stamp, t, ttl) == entry = None \/ (t - stamp) > ttl

\* a slot with no handler; the fields after "symbol" are the handler's locals,
\* those after "recommendation" record what the invocation did
Idle ==
  [route |-> "none", pc |-> "idle", symbol |-> "", timeframe |-> "",
   stockPrice |-> None, historicalPrices |-> <<>>, freshPrices |-> <<>>,
   indicators |-> None, news |-> <<>>, recommendation |-> None,
   finalStockPrice |-> None, finalTechnicalIndicators |-> None, finalNews |-> <<>>,
   cached |-> None, checked |-> FALSE, age |-> -1, stale |-> FALSE,
   nHistFetch |-> 0, nPriceFetch |-> 0, nNewsFetch |-> 0, nCalc |-> 0, nWrites |-> 0,
   nBars |-> -1,
   status |-> 0, body |-> None]

\* res.status(code).json(body): the handler returns, its locals die
Respond(r, code, payload) ==
  [Idle EXCEPT !.route = r.route, !.pc = "done", !.symbol = r.symbol,
               !.timeframe = r.timeframe,
               !.cached = r.cached, !.checked = r.checked, !.age = r.age,
               !.stale = r.stale, !.nHistFetch = r.nHistFetch,
               !.nPriceFetch = r.nPriceFetch, !.nNewsFetch = r.nNewsFetch,
               !.nCalc = r.nCalc, !.nBars = r.nBars,
               !.nWrites = r.nWrites, !.status = code, !.body = payload]

\* variant: a handler that found its entry stale and obtained nothing newer
\* answers 404 instead of the entry
AnswerNewOnly(q, held) ==
  IF held = None \/ (q.stale /\ held = q.cached) THEN Respond(q, 404, None)
  ELSE Respond(q, 200, held)

\* 200 with what the handler holds, 404 when it holds nothing
Answer(q, held) == IF held = None THEN Respond(q, 404, None) ELSE Respond(q, 200, held)

Free(r) == req[r].pc \in {"idle", "done"}

\* concurrent runs: each slot takes one request, "a" first
CanStart(r) == req[r].pc = "idle" /\ (r = "a" \/ req["a"].pc # "idle")

\* sequential runs: the next request arrives when the last one is answered
SeqCanStart(r) == r = "a" /\ Free(r) /\ started < MaxRequests

\* the record of a set call on map f under key k
Noted(f, k, v) == [lastSet EXCEPT ![f][k] = Some(v)]

\* for news also the time of the call (a news entry carries no timestamp)
NotedNews(k, v) == [lastSet EXCEPT !.news[k] = Some(v), !.newsAt[k] = now]

\* variant: a timer that also restamps every indicator entry
TickRefreshing ==
  /\ ticks < MaxTicks
  /\ \E dt \in TickSteps : now' = now + dt
  /\ ticks' = ticks + 1
  /\ technicalIndicators' =
       [s \in Symbols |->
          IF technicalIndicators[s] = None THEN None
          ELSE Some([technicalIndicators[s][1] EXCEPT !.lastUpdated = now'])]
  /\ UNCHANGED <<probe, stockPrices, historicalPrices, news, aiRecommendations,
                 req, lastSet, started>>

\* the clock moves between any two steps
Tick ==
  /\ ticks < MaxTicks
  /\ \E dt \in TickSteps : now' = now + dt
  /\ ticks' = ticks + 1
  /\ UNCHANGED <<probe, store, req, lastSet, started>>

\* a request whose symbol the schema rejects: the catch answers 400
InvalidBegin(r, route) ==
  /\ \E raw \in RawSymbols :
       /\ ~SymbolOk(ToUpperCase(raw))
       /\ req' = [req EXCEPT ![r] = [Idle EXCEPT !.route = route, !.pc = "done",
                                                  !.status = 400]]
  /\ started' = started + 1
  /\ UNCHANGED <<probe, now, ticks, store, lastSet>>

\* GET /api/stock/:symbol/technical, up to its first await
TechBegin(r) ==
  /\ \E raw \in RawSymbols :
       LET symbol == ToUpperCase(raw)
           got    == getTechnicalIndicators(technicalIndicators, symbol)
       IN  /\ SymbolOk(symbol)
           /\ req' = [req EXCEPT ![r] = [Idle EXCEPT !.route = "technical",
                                                      !.pc = "t_got_ind",
                                                      !.symbol = symbol,
                                                      !.indicators = got,
                                                      !.cached = got]]
  /\ started' = started + 1
  /\ UNCHANGED <<probe, now, ticks, store, lastSet>>

\* variant: a stale or absent entry goes on as if no bars were cached
TechCheckStaleNoBars(r) ==
  LET q       == req[r]
      stamp   == IF q.indicators = None THEN 0 ELSE q.indicators[1].lastUpdated
      isStale == IsStale(q.indicators, stamp, now, TTL_INDICATORS)
      seen    == [q EXCEPT !.checked = TRUE, !.stale = isStale,
                           !.age = IF q.indicators = None THEN -1 ELSE now - stamp]
  IN  /\ q.pc = "t_got_ind"
      /\ req' = [req EXCEPT ![r] =
                   IF isStale
                   THEN [seen EXCEPT !.pc = "t_got_hist", !.historicalPrices = <<>>]
                   ELSE Respond(seen, 200, q.indicators)]
      /\ UNCHANGED <<probe, started, now, ticks, store, lastSet>>

\* the staleness test; a fresh entry is answered at once, a stale or absent
\* one goes on to read the cached 1M bars
TechCheckStale(r) ==
  LET q       == req[r]
      stamp   == IF q.indicators = None THEN 0 ELSE q.indicators[1].lastUpdated
      isStale == IsStale(q.indicators, stamp, now, TTL_INDICATORS)
      seen    == [q EXCEPT !.checked = TRUE, !.stale = isStale,
                           !.age = IF q.indicators = None THEN -1 ELSE now - stamp]
  IN  /\ q.pc = "t_got_ind"
      /\ req' = [req EXCEPT ![r] =
                   IF isStale
                   THEN [seen EXCEPT !.pc = "t_got_hist",
                                     !.historicalPrices =
                                        getHistoricalPrices(historicalPrices, q.symbol, "1M")]
                   ELSE Respond(seen, 200, q.indicators)]
      /\ UNCHANGED <<probe, started, now, ticks, store, lastSet>>

\* cached bars: compute from them and store; none: ask the collaborator
TechAfterHist(r) ==
  LET q == req[r]
  IN  /\ q.pc = "t_got_hist"
      /\ IF Len(q.historicalPrices) = 0
         THEN /\ req' = [req EXCEPT ![r] = [q EXCEPT !.pc = "t_fetching",
                                                     !.nHistFetch = q.nHistFetch + 1]]
              /\ UNCHANGED <<technicalIndicators, lastSet>>
         ELSE LET ind == Snapshot(q.historicalPrices, q.symbol, now)
              IN  /\ technicalIndicators' = setTechnicalIndicators(technicalIndicators, ind)
                  /\ lastSet' = Noted("technicalIndicators", ind.symbol, ind)
                  /\ req' = [req EXCEPT ![r] = [q EXCEPT !.pc = "t_set_ind",
                                                         !.indicators = Some(ind),
                                                         !.historicalPrices = <<>>,
                                                         !.nCalc = q.nCalc + 1,
                                                         !.nWrites = q.nWrites + 1]]
      /\ UNCHANGED <<probe, started, now, ticks, stockPrices, historicalPrices, news, aiRecommendations>>

\* stockService.getHistoricalPrices resolves; bars are cached, no bars end
\* the handler with what it holds
TechFetchReturn(r) ==
  LET q == req[r]
  IN  /\ q.pc = "t_fetching"
      /\ \E freshPrices \in HistResults :
           IF HasBars(freshPrices)
           THEN /\ historicalPrices' =
                     setHistoricalPrices(historicalPrices, q.symbol, "1M", freshPrices)
                /\ lastSet' = Noted("historicalPrices", <<q.symbol, "1M">>, freshPrices)
                /\ req' = [req EXCEPT ![r] = [q EXCEPT !.pc = "t_set_hist",
                                                       !.freshPrices = freshPrices,
                                                       !.nBars = Len(freshPrices),
                                                       !.nWrites = q.nWrites + 1]]
           ELSE /\ req' = [req EXCEPT ![r] =
                             Answer([q EXCEPT !.nBars = Len(freshPrices)], q.indicators)]
                /\ UNCHANGED <<historicalPrices, lastSet>>
      /\ UNCHANGED <<probe, started, now, ticks, stockPrices, technicalIndicators, news, aiRecommendations>>

\* variant: the snapshot is stamped with the time the server started
TechAfterSetHistUndated(r) ==
  LET q   == req[r]
      ind == Snapshot(q.freshPrices, q.symbol, 0)
  IN  /\ q.pc = "t_set_hist"
      /\ technicalIndicators' = setTechnicalIndicators(technicalIndicators, ind)
      /\ lastSet' = Noted("technicalIndicators", ind.symbol, ind)
      /\ req' = [req EXCEPT ![r] = [q EXCEPT !.pc = "t_set_ind",
                                             !.indicators = Some(ind),
                                             !.freshPrices = <<>>,
                                             !.nCalc = q.nCalc + 1,
                                             !.nWrites = q.nWrites + 1]]
      /\ UNCHANGED <<probe, started, now, ticks, stockPrices, historicalPrices, news, aiRecommendations>>

\* after the bars are cached: compute from the fetched bars and store
TechAfterSetHist(r) ==
  LET q   == req[r]
      ind == Snapshot(q.freshPrices, q.symbol, now)
  IN  /\ q.pc = "t_set_hist"
      /\ technicalIndicators' = setTechnicalIndicators(technicalIndicators, ind)
      /\ lastSet' = Noted("technicalIndicators", ind.symbol, ind)
      /\ req' = [req EXCEPT ![r] = [q EXCEPT !.pc = "t_set_ind",
                                             !.indicators = Some(ind),
                                             !.freshPrices = <<>>,
                                             !.nCalc = q.nCalc + 1,
                                             !.nWrites = q.nWrites + 1]]
      /\ UNCHANGED <<probe, started, now, ticks, stockPrices, historicalPrices, news, aiRecommendations>>

\* after the snapshot is stored: answer with it
TechRespond(r) ==
  LET q == req[r]
  IN  /\ q.pc = "t_set_ind"
      /\ req' = [req EXCEPT ![r] =
                   Answer(q, q.indicators)]
      /\ UNCHANGED <<probe, started, now, ticks, store, lastSet>>

\* a quote as stockService.getCurrentPrice builds it (lastUpdated: new Date())
Quote(symbol, price, t) == [symbol |-> symbol, price |-> price, lastUpdated |-> t]

\* what aiService.generateRecommendation resolves to; it catches its own
\* failures and falls back, so it always resolves (generatedAt: new Date())
Recommendation(symbol, stockPrice, t) ==
  [symbol |-> symbol, currentPrice |-> stockPrice.price, generatedAt |-> t]

\* GET /api/stock/:symbol/recommendation, up to its first await
RecBegin(r) ==
  /\ \E raw \in RawSymbols :
       LET symbol == ToUpperCase(raw)
           got    == getAIRecommendation(aiRecommendations, symbol)
       IN  /\ SymbolOk(symbol)
           /\ req' = [req EXCEPT ![r] = [Idle EXCEPT !.route = "recommendation",
                                                      !.pc = "r_got_rec",
                                                      !.symbol = symbol,
                                                      !.recommendation = got,
                                                      !.cached = got]]
  /\ started' = started + 1
  /\ UNCHANGED <<probe, now, ticks, store, lastSet>>

\* the one-hour staleness test; stale or absent: start gathering the inputs
RecCheckStale(r) ==
  LET q       == req[r]
      stamp   == IF q.recommendation = None THEN 0 ELSE q.recommendation[1].generatedAt
      isStale == IsStale(q.recommendation, stamp, now, TTL_RECOMMENDATION)
      seen    == [q EXCEPT !.checked = TRUE, !.stale = isStale,
                           !.age = IF q.recommendation = None THEN -1 ELSE now - stamp]
  IN  /\ q.pc = "r_got_rec"
      /\ req' = [req EXCEPT ![r] =
                   IF isStale
                   THEN [seen EXCEPT !.pc = "r_got_price",
                                     !.stockPrice = getStockPrice(stockPrices, q.symbol)]
                   ELSE Respond(seen, 200, q.recommendation)]
      /\ UNCHANGED <<probe, started, now, ticks, store, lastSet>>

RecGotPrice(r) ==
  LET q == req[r]
  IN  /\ q.pc = "r_got_price"
      /\ req' = [req EXCEPT ![r] =
                   [q EXCEPT !.pc = "r_got_ind",
                             !.indicators = getTechnicalIndicators(technicalIndicators, q.symbol)]]
      /\ UNCHANGED <<probe, started, now, ticks, store, lastSet>>

RecGotInd(r) ==
  LET q == req[r]
  IN  /\ q.pc = "r_got_ind"
      /\ req' = [req EXCEPT ![r] = [q EXCEPT !.pc = "r_got_news",
                                             !.news = getNews(news, q.symbol)]]
      /\ UNCHANGED <<probe, started, now, ticks, store, lastSet>>

\* the handler runs on without yielding until its next await: a fetch of
\* whatever input its first reads found missing, or the final reads
\* (a local that is not read again is reset to its initial value)
RecFinalReads(q) ==
  [q EXCEPT !.pc = "r_final_price", !.stockPrice = None, !.indicators = None,
            !.news = <<>>,
            !.finalStockPrice = getStockPrice(stockPrices, q.symbol)]

RecFromNews(q) ==
  IF Len(q.news) = 0
  THEN [q EXCEPT !.pc = "r_fetch_news", !.stockPrice = None, !.indicators = None,
                 !.nNewsFetch = q.nNewsFetch + 1]
  ELSE RecFinalReads(q)

RecFromTech(q) ==
  IF q.indicators = None
  THEN [q EXCEPT !.pc = "r_fetch_hist", !.stockPrice = None,
                 !.nHistFetch = q.nHistFetch + 1]
  ELSE RecFromNews(q)

RecFromPrice(q) ==
  IF q.stockPrice = None
  THEN [q EXCEPT !.pc = "r_fetch_price", !.nPriceFetch = q.nPriceFetch + 1]
  ELSE RecFromTech(q)

RecGotNews(r) ==
  LET q == req[r]
  IN  /\ q.pc = "r_got_news"
      /\ req' = [req EXCEPT ![r] = RecFromPrice(q)]
      /\ UNCHANGED <<probe, started, now, ticks, store, lastSet>>

\* stockService.getCurrentPrice resolves
RecPriceReturn(r) ==
  LET q == req[r]
  IN  /\ q.pc = "r_fetch_price"
      /\ \E price \in PriceResults :
           IF price # 0
           THEN LET freshPrice == Quote(q.symbol, price, now)
                IN  /\ stockPrices' = setStockPrice(stockPrices, freshPrice)
                    /\ lastSet' = Noted("stockPrices", freshPrice.symbol, freshPrice)
                    /\ req' = [req EXCEPT ![r] = [q EXCEPT !.pc = "r_set_price",
                                                           !.nWrites = q.nWrites + 1]]
           ELSE /\ req' = [req EXCEPT ![r] = RecFromTech(q)]
                /\ UNCHANGED <<stockPrices, lastSet>>
      /\ UNCHANGED <<probe, started, now, ticks, historicalPrices, technicalIndicators, news,
                     aiRecommendations>>

RecAfterSetPrice(r) ==
  LET q == req[r]
  IN  /\ q.pc = "r_set_price"
      /\ req' = [req EXCEPT ![r] = RecFromTech(q)]
      /\ UNCHANGED <<probe, started, now, ticks, store, lastSet>>

\* stockService.getHistoricalPrices resolves: bars are turned into a
\* snapshot and stored (the bars themselves are not cached here)
RecHistReturn(r) ==
  LET q == req[r]
  IN  /\ q.pc = "r_fetch_hist"
      /\ \E bars \in HistResults :
           IF HasBars(bars)
           THEN LET ind == Snapshot(bars, q.symbol, now)
                IN  /\ technicalIndicators' = setTechnicalIndicators(technicalIndicators, ind)
                    /\ lastSet' = Noted("technicalIndicators", ind.symbol, ind)
                    /\ req' = [req EXCEPT ![r] = [q EXCEPT !.pc = "r_set_ind",
                                                           !.nBars = Len(bars),
                                                           !.nCalc = q.nCalc + 1,
                                                           !.nWrites = q.nWrites + 1]]
           ELSE /\ req' = [req EXCEPT ![r] = RecFromNews([q EXCEPT !.nBars = Len(bars)])]
                /\ UNCHANGED <<technicalIndicators, lastSet>>
      /\ UNCHANGED <<probe, started, now, ticks, stockPrices, historicalPrices, news, aiRecommendations>>

RecAfterSetInd(r) ==
  LET q == req[r]
  IN  /\ q.pc = "r_set_ind"
      /\ req' = [req EXCEPT ![r] = RecFromNews(q)]
      /\ UNCHANGED <<probe, started, now, ticks, store, lastSet>>

\* stockService.getStockNews resolves
RecNewsReturn(r) ==
  LET q == req[r]
  IN  /\ q.pc = "r_fetch_news"
      /\ \E freshNews \in NewsResults :
           IF Len(freshNews) > 0
           THEN /\ news' = setNews(news, q.symbol, freshNews)
                /\ lastSet' = NotedNews(q.symbol, freshNews)
                /\ req' = [req EXCEPT ![r] = [q EXCEPT !.pc = "r_set_news",
                                                       !.nWrites = q.nWrites + 1]]
           ELSE /\ req' = [req EXCEPT ![r] = RecFinalReads(q)]
                /\ UNCHANGED <<news, lastSet>>
      /\ UNCHANGED <<probe, started, now, ticks, stockPrices, historicalPrices, technicalIndicators,
                     aiRecommendations>>

RecAfterSetNews(r) ==
  LET q == req[r]
  IN  /\ q.pc = "r_set_news"
      /\ req' = [req EXCEPT ![r] = RecFinalReads(q)]
      /\ UNCHANGED <<probe, started, now, ticks, store, lastSet>>

RecFinalPrice(r) ==
  LET q == req[r]
  IN  /\ q.pc = "r_final_price"
      /\ req' = [req EXCEPT ![r] =
                   [q EXCEPT !.pc = "r_final_ind",
                             !.finalTechnicalIndicators =
                                getTechnicalIndicators(technicalIndicators, q.symbol)]]
      /\ UNCHANGED <<probe, started, now, ticks, store, lastSet>>

RecFinalInd(r) ==
  LET q == req[r]
  IN  /\ q.pc = "r_final_ind"
      /\ req' = [req EXCEPT ![r] = [q EXCEPT !.pc = "r_final_news",
                                             !.finalNews = getNews(news, q.symbol)]]
      /\ UNCHANGED <<probe, started, now, ticks, store, lastSet>>

\* with a quote and a snapshot the recommendation is generated; without,
\* the handler answers with the recommendation it read at the start, if any
RecFinalNews(r) ==
  LET q == req[r]
  IN  /\ q.pc = "r_final_news"
      /\ req' = [req EXCEPT ![r] =
                   IF q.finalStockPrice # None /\ q.finalTechnicalIndicators # None
                   THEN [q EXCEPT !.pc = "r_generating",
                                  !.finalTechnicalIndicators = None, !.finalNews = <<>>]
                   ELSE Answer(q, q.recommendation)]
      /\ UNCHANGED <<probe, started, now, ticks, store, lastSet>>

\* aiService.generateRecommendation resolves; the result is stored
RecGenerated(r) ==
  LET q   == req[r]
      rec == Recommendation(q.symbol, q.finalStockPrice[1], now)
  IN  /\ q.pc = "r_generating"
      /\ aiRecommendations' = setAIRecommendation(aiRecommendations, rec)
      /\ lastSet' = Noted("aiRecommendations", rec.symbol, rec)
      /\ req' = [req EXCEPT ![r] = [q EXCEPT !.pc = "r_set_rec",
                                             !.recommendation = Some(rec),
                                             !.finalStockPrice = None,
                                             !.nWrites = q.nWrites + 1]]
      /\ UNCHANGED <<probe, started, now, ticks, stockPrices, historicalPrices, technicalIndicators, news>>

RecRespond(r) ==
  LET q == req[r]
  IN  /\ q.pc = "r_set_rec"
      /\ req' = [req EXCEPT ![r] = Answer(q, q.recommendation)]
      /\ UNCHANGED <<probe, started, now, ticks, store, lastSet>>

\* GET /api/stock/:symbol, up to its first await
PriceBegin(r) ==
  /\ \E raw \in RawSymbols :
       LET symbol == ToUpperCase(raw)
           got    == getStockPrice(stockPrices, symbol)
       IN  /\ SymbolOk(symbol)
           /\ req' = [req EXCEPT ![r] = [Idle EXCEPT !.route = "price",
                                                      !.pc = "p_got",
                                                      !.symbol = symbol,
                                                      !.stockPrice = got,
                                                      !.cached = got]]
  /\ started' = started + 1
  /\ UNCHANGED <<probe, now, ticks, store, lastSet>>

\* the one-minute staleness test
PriceCheckStale(r) ==
  LET q       == req[r]
      stamp   == IF q.stockPrice = None THEN 0 ELSE q.stockPrice[1].lastUpdated
      isStale == IsStale(q.stockPrice, stamp, now, TTL_PRICE)
      seen    == [q EXCEPT !.checked = TRUE, !.stale = isStale,
                           !.age = IF q.stockPrice = None THEN -1 ELSE now - stamp]
  IN  /\ q.pc = "p_got"
      /\ req' = [req EXCEPT ![r] =
                   IF isStale
                   THEN [seen EXCEPT !.pc = "p_fetching",
                                     !.nPriceFetch = q.nPriceFetch + 1]
                   ELSE Answer(seen, q.stockPrice)]
      /\ UNCHANGED <<probe, started, now, ticks, store, lastSet>>

\* stockService.getCurrentPrice resolves: a quote is stored, null leaves the
\* handler with the quote it read
PriceReturn(r) ==
  LET q == req[r]
  IN  /\ q.pc = "p_fetching"
      /\ \E price \in PriceResults :
           IF price # 0
           THEN LET freshData == Quote(q.symbol, price, now)
                IN  /\ stockPrices' = setStockPrice(stockPrices, freshData)
                    /\ lastSet' = Noted("stockPrices", freshData.symbol, freshData)
                    /\ req' = [req EXCEPT ![r] = [q EXCEPT !.pc = "p_set",
                                                           !.stockPrice = Some(freshData),
                                                           !.nWrites = q.nWrites + 1]]
           ELSE /\ req' = [req EXCEPT ![r] = Answer(q, q.stockPrice)]
                /\ UNCHANGED <<stockPrices, lastSet>>
      /\ UNCHANGED <<probe, started, now, ticks, historicalPrices, technicalIndicators, news,
                     aiRecommendations>>

PriceRespond(r) ==
  LET q == req[r]
  IN  /\ q.pc = "p_set"
      /\ req' = [req EXCEPT ![r] = Answer(q, q.stockPrice)]
      /\ UNCHANGED <<probe, started, now, ticks, store, lastSet>>

\* GET /api/stock/:symbol/history/:timeframe, up to its first await
\* (timeframeSchema accepts the timeframes of Timeframes)
HistBegin(r) ==
  /\ \E raw \in RawSymbols, timeframe \in Timeframes :
       LET symbol == ToUpperCase(raw)
       IN  /\ SymbolOk(symbol)
           /\ req' = [req EXCEPT ![r] =
                        [Idle EXCEPT !.route = "history", !.pc = "h_got",
                                     !.symbol = symbol, !.timeframe = timeframe,
                                     !.historicalPrices =
                                        getHistoricalPrices(historicalPrices, symbol, timeframe)]]
  /\ started' = started + 1
  /\ UNCHANGED <<probe, now, ticks, store, lastSet>>

\* a list answer is always 200, also when it is empty
HistCheck(r) ==
  LET q == req[r]
  IN  /\ q.pc = "h_got"
      /\ req' = [req EXCEPT ![r] =
                   IF Len(q.historicalPrices) = 0
                   THEN [q EXCEPT !.pc = "h_fetching", !.nHistFetch = q.nHistFetch + 1]
                   ELSE Respond(q, 200, Some(q.historicalPrices))]
      /\ UNCHANGED <<probe, started, now, ticks, store, lastSet>>

HistReturn(r) ==
  LET q == req[r]
  IN  /\ q.pc = "h_fetching"
      /\ \E bars \in HistResults :
           IF HasBars(bars)
           THEN /\ historicalPrices' =
                     setHistoricalPrices(historicalPrices, q.symbol, q.timeframe, bars)
                /\ lastSet' = Noted("historicalPrices", <<q.symbol, q.timeframe>>, bars)
                /\ req' = [req EXCEPT ![r] = [q EXCEPT !.pc = "h_set",
                                                       !.historicalPrices = bars,
                                                       !.nBars = Len(bars),
                                                       !.nWrites = q.nWrites + 1]]
           ELSE /\ req' = [req EXCEPT ![r] =
                             Respond([q EXCEPT !.nBars = Len(bars)], 200, Some(bars))]
                /\ UNCHANGED <<historicalPrices, lastSet>>
      /\ UNCHANGED <<probe, started, now, ticks, stockPrices, technicalIndicators, news,
                     aiRecommendations>>

HistRespond(r) ==
  LET q == req[r]
  IN  /\ q.pc = "h_set"
      /\ req' = [req EXCEPT ![r] = Respond(q, 200, Some(q.historicalPrices))]
      /\ UNCHANGED <<probe, started, now, ticks, store, lastSet>>

\* GET /api/stock/:symbol/news, up to its first await; "age" is the time
\* since the cached news was stored, which the handler does not look at
NewsBegin(r) ==
  /\ \E raw \in RawSymbols :
       LET symbol == ToUpperCase(raw)
       IN  /\ SymbolOk(symbol)
           /\ req' = [req EXCEPT ![r] =
                        [Idle EXCEPT !.route = "news", !.pc = "n_got",
                                     !.symbol = symbol,
                                     !.news = getNews(news, symbol),
                                     !.cached = news[symbol],
                                     !.age = IF lastSet.newsAt[symbol] < 0 THEN -1
                                             ELSE now - lastSet.newsAt[symbol]]]
  /\ started' = started + 1
  /\ UNCHANGED <<probe, now, ticks, store, lastSet>>

NewsCheck(r) ==
  LET q == req[r]
  IN  /\ q.pc = "n_got"
      /\ req' = [req EXCEPT ![r] =
                   IF Len(q.news) = 0
                   THEN [q EXCEPT !.pc = "n_fetching", !.nNewsFetch = q.nNewsFetch + 1]
                   ELSE Respond(q, 200, Some(q.news))]
      /\ UNCHANGED <<probe, started, now, ticks, store, lastSet>>

NewsReturn(r) ==
  LET q == req[r]
  IN  /\ q.pc = "n_fetching"
      /\ \E fresh \in NewsResults :
           IF Len(fresh) > 0
           THEN /\ news' = setNews(news, q.symbol, fresh)
                /\ lastSet' = NotedNews(q.symbol, fresh)
                /\ req' = [req EXCEPT ![r] = [q EXCEPT !.pc = "n_set", !.news = fresh,
                                                       !.nWrites = q.nWrites + 1]]
           ELSE /\ req' = [req EXCEPT ![r] = Respond(q, 200, Some(fresh))]
                /\ UNCHANGED <<news, lastSet>>
      /\ UNCHANGED <<probe, started, now, ticks, stockPrices, historicalPrices,
                     technicalIndicators, aiRecommendations>>

NewsRespond(r) ==
  LET q == req[r]
  IN  /\ q.pc = "n_set"
      /\ req' = [req EXCEPT ![r] = Respond(q, 200, Some(q.news))]
      /\ UNCHANGED <<probe, started, now, ticks, store, lastSet>>

\* the clock of the sequential runs moves by the quote and news boundaries
FeedTick ==
  /\ ticks < MaxTicks
  /\ \E dt \in FeedTickSteps : now' = now + dt
  /\ ticks' = ticks + 1
  /\ UNCHANGED <<probe, store, req, lastSet, started>>

(* ------------------------------------------------------------------ *)
(* Specification                                                      *)
(* ------------------------------------------------------------------ *)

\* after new MemStorage(): five empty Maps, no request yet
Fresh ==
  /\ now = 0
  /\ ticks = 0
  /\ stockPrices = [s \in Symbols |-> None]
  /\ historicalPrices = [s \in Symbols |-> None]
  /\ technicalIndicators = [s \in Symbols |-> None]
  /\ news = [s \in Symbols |-> None]
  /\ aiRecommendations = [s \in Symbols |-> None]
  /\ req = [r \in Reqs |-> Idle]
  /\ started = 0
  /\ lastSet = [stockPrices         |-> [s \in Symbols |-> None],
                historicalPrices    |-> [k \in Symbols \X Timeframes |-> None],
                technicalIndicators |-> [s \in Symbols |-> None],
                news                |-> [s \in Symbols |-> None],
                aiRecommendations   |-> [s \in Symbols |-> None],
                newsAt              |-> [s \in Symbols |-> -1]]

Init == Fresh /\ probe = [op |-> "none"]

\* the steps of a handler after its first await
Step(r) ==
  \/ TechCheckStale(r)
  \/ TechAfterHist(r)
  \/ TechFetchReturn(r)
  \/ TechAfterSetHist(r)
  \/ TechRespond(r)
  \/ RecCheckStale(r)
  \/ RecGotPrice(r)
  \/ RecGotInd(r)
  \/ RecGotNews(r)
  \/ RecPriceReturn(r)
  \/ RecAfterSetPrice(r)
  \/ RecHistReturn(r)
  \/ RecAfterSetInd(r)
  \/ RecNewsReturn(r)
  \/ RecAfterSetNews(r)
  \/ RecFinalPrice(r)
  \/ RecFinalInd(r)
  \/ RecFinalNews(r)
  \/ RecGenerated(r)
  \/ RecRespond(r)
  \/ PriceCheckStale(r)
  \/ PriceReturn(r)
  \/ PriceRespond(r)
  \/ HistCheck(r)
  \/ HistReturn(r)
  \/ HistRespond(r)
  \/ NewsCheck(r)
  \/ NewsReturn(r)
  \/ NewsRespond(r)

\* a request arrives; its handler runs to its first await
Arrive(r) ==
  \/ \E route \in {"technical", "news"} : InvalidBegin(r, route)
  \/ TechBegin(r)
  \/ RecBegin(r)
  \/ PriceBegin(r)
  \/ HistBegin(r)
  \/ NewsBegin(r)

\* Two requests, interleaved in every way; at most one of the two is a
\* /recommendation request.
Next ==
  \/ Tick
  \/ \E r \in Reqs : CanStart(r) /\ Arrive(r)
            /\ (req'[r].route = "recommendation"
                  => \A o \in Reqs : req[o].route # "recommendation")
  \/ \E r \in Reqs : Step(r)

Spec == Init /\ [][Next]_vars

\* Up to MaxRequests requests, one after the other.
NextSeq ==
  \/ FeedTick
  \/ \E r \in Reqs : SeqCanStart(r) /\ Arrive(r)
  \/ \E r \in Reqs : Step(r)

SpecSeq == Init /\ [][NextSeq]_vars

\* The store as an earlier GET /api/stock/TCS/history/1M leaves it: the 1M
\* bars of the symbol cached when the collaborator had any, nothing else.
InitWarm ==
  /\ now = 0
  /\ ticks = 0
  /\ stockPrices = [s \in Symbols |-> None]
  /\ technicalIndicators = [s \in Symbols |-> None]
  /\ news = [s \in Symbols |-> None]
  /\ aiRecommendations = [s \in Symbols |-> None]
  /\ req = [r \in Reqs |-> Idle]
  /\ started = 0
  /\ probe = [op |-> "none"]
  /\ \E bars \in HistResults :
       LET empty == [s \in Symbols |-> None]
           noted == [stockPrices         |-> [s \in Symbols |-> None],
                     historicalPrices    |-> [k \in Symbols \X Timeframes |-> None],
                     technicalIndicators |-> [s \in Symbols |-> None],
                     news                |-> [s \in Symbols |-> None],
                     aiRecommendations   |-> [s \in Symbols |-> None],
                     newsAt              |-> [s \in Symbols |-> -1]]
       IN  IF HasBars(bars)
           THEN /\ historicalPrices = setHistoricalPrices(empty, "TCS", "1M", bars)
                /\ lastSet = [noted EXCEPT !.historicalPrices[<<"TCS", "1M">>] = Some(bars)]
           ELSE /\ historicalPrices = empty
                /\ lastSet = noted

\* Up to MaxRequests requests, one after the other, after that earlier one.
SpecWarm == InitWarm /\ [][NextSeq]_vars

(* ------------------------------------------------------------------ *)
(* MemStorage on its own: any caller, any order of set calls          *)
(* ------------------------------------------------------------------ *)

\* how many set calls a run of the store makes
MaxSets == 3

\* the values the callers store
QuoteValues == {2850, 2900}

\* probe after a set call: one more call made; over records that the call
\* replaced a different value held under the same key
Called(replaced, v) ==
  [op |-> "store", n |-> probe.n + 1,
   over |-> probe.over \/ (replaced # None /\ replaced # Some(v))]

InitStore ==
  /\ Fresh
  /\ probe = [op |-> "store", n |-> 0, over |-> FALSE]

StoreSetStockPrice ==
  /\ probe.n < MaxSets
  /\ \E symbol \in Symbols, price \in QuoteValues :
       LET v == Quote(symbol, price, now)
       IN  /\ stockPrices' = setStockPrice(stockPrices, v)
           /\ lastSet' = Noted("stockPrices", symbol, v)
           /\ probe' = Called(lastSet.stockPrices[symbol], v)
  /\ UNCHANGED <<now, ticks, historicalPrices, technicalIndicators, news,
                 aiRecommendations, req, started>>

StoreSetHistoricalPrices ==
  /\ probe.n < MaxSets
  /\ \E symbol \in Symbols, timeframe \in Timeframes, prices \in HistResults :
       /\ historicalPrices' = setHistoricalPrices(historicalPrices, symbol, timeframe, prices)
       /\ lastSet' = Noted("historicalPrices", <<symbol, timeframe>>, prices)
       /\ probe' = Called(lastSet.historicalPrices[<<symbol, timeframe>>], prices)
  /\ UNCHANGED <<now, ticks, stockPrices, technicalIndicators, news,
                 aiRecommendations, req, started>>

StoreSetTechnicalIndicators ==
  /\ probe.n < MaxSets
  /\ \E symbol \in Symbols, bars \in HistResults :
       LET v == Snapshot(bars, symbol, now)
       IN  /\ technicalIndicators' = setTechnicalIndicators(technicalIndicators, v)
           /\ lastSet' = Noted("technicalIndicators", symbol, v)
           /\ probe' = Called(lastSet.technicalIndicators[symbol], v)
  /\ UNCHANGED <<now, ticks, stockPrices, historicalPrices, news,
                 aiRecommendations, req, started>>

StoreSetNews ==
  /\ probe.n < MaxSets
  /\ \E symbol \in Symbols, items \in NewsResults :
       /\ news' = setNews(news, symbol, items)
       /\ lastSet' = NotedNews(symbol, items)
       /\ probe' = Called(lastSet.news[symbol], items)
  /\ UNCHANGED <<now, ticks, stockPrices, historicalPrices, technicalIndicators,
                 aiRecommendations, req, started>>

StoreSetAIRecommendation ==
  /\ probe.n < MaxSets
  /\ \E symbol \in Symbols, price \in QuoteValues :
       LET v == Recommendation(symbol, Quote(symbol, price, now), now)
       IN  /\ aiRecommendations' = setAIRecommendation(aiRecommendations, v)
           /\ lastSet' = Noted("aiRecommendations", symbol, v)
           /\ probe' = Called(lastSet.aiRecommendations[symbol], v)
  /\ UNCHANGED <<now, ticks, stockPrices, historicalPrices, technicalIndicators,
                 news, req, started>>

NextStore ==
  \/ StoreSetStockPrice
  \/ StoreSetHistoricalPrices
  \/ StoreSetTechnicalIndicators
  \/ StoreSetNews
  \/ StoreSetAIRecommendation

SpecStore == InitStore /\ [][NextStore]_vars

(* ------------------------------------------------------------------ *)
(* calculateTechnicalIndicators on its own: any bar sequence          *)
(* ------------------------------------------------------------------ *)

\* the longest bar sequence handed to the aggregator
MaxBars == 3

\* closing prices of the bars
Closes == {1, 2, 3, 4}

BarSeqs == UNION {[1..n -> Closes] : n \in 0..MaxBars}

\* bars that all close at the same price: a flat series
FlatBars == {[i \in 1..n |-> c] : n \in {15, 30}, c \in {100, 250}}

\* how a call ends: no statement of the aggregator or of the functions it
\* calls throws, so every call returns its object literal
Call(bars, symbol, t) ==
  [kind |-> "returned", value |-> calculateTechnicalIndicators(bars, symbol, t)]

InitCalc ==
  /\ Fresh
  /\ \E symbol \in Symbols, bars \in BarSeqs \cup FlatBars :
       probe = [op |-> "input", symbol |-> symbol, bars |-> bars]

CalcApply ==
  /\ probe.op = "input"
  /\ probe' = [op |-> "output", symbol |-> probe.symbol, bars |-> probe.bars,
               outcome |-> Call(probe.bars, probe.symbol, now), at |-> now]
  /\ UNCHANGED <<now, ticks, store, req, lastSet, started>>

\* a second call with the same bars and symbol, at the same time or later
CalcAgain ==
  /\ probe.op = "output"
  /\ probe' = [op |-> "again", symbol |-> probe.symbol, bars |-> probe.bars,
               outcome |-> probe.outcome, at |-> probe.at,
               second |-> Call(probe.bars, probe.symbol, now), secondAt |-> now]
  /\ UNCHANGED <<now, ticks, store, req, lastSet, started>>

NextCalc ==
  \/ CalcApply
  \/ CalcAgain
  \/ Tick

SpecCalc == InitCalc /\ [][NextCalc]_vars

(* ------------------------------------------------------------------ *)
(* Properties                                                         *)
(* ------------------------------------------------------------------ *)

\* an indicator request that has made its staleness test
Tested(r) == req[r].route = "technical" /\ req[r].checked

\* an indicator request that has been answered after its staleness test
Settled(r) == Tested(r) /\ req[r].pc = "done"

\* C1: an indicator request that finds an entry no older than 300000 ms is
\* answered 200 with exactly that entry, and has called neither the aggregator
\* nor the collaborator, nor written to the store.
FreshHitIsARead ==
  \A r \in Reqs :
    (Tested(r) /\ req[r].cached # None /\ req[r].age <= 300000)
      => /\ req[r].pc = "done"
         /\ req[r].status = 200
         /\ req[r].body = req[r].cached
         /\ req[r].nCalc = 0
         /\ req[r].nHistFetch = 0
         /\ req[r].nWrites = 0

\* an entry exactly 300000 ms old was served as it is
FreshHitAtTtl ==
  \E r \in Reqs :
    /\ Settled(r) /\ req[r].cached # None /\ req[r].age = 300000
    /\ req[r].status = 200 /\ req[r].body = req[r].cached

\* C2 as stated: in a sequential run, every indicator request that finds the
\* cached entry older than 300000 ms calls the aggregator exactly once.
StaleAlwaysComputesOnce ==
  \A r \in Reqs :
    (Settled(r) /\ req[r].cached # None /\ req[r].age > 300000) => req[r].nCalc = 1

\* C2: in a sequential run, an indicator request that finds the entry stale or
\* absent calls the aggregator exactly once when 1M bars are cached or the
\* collaborator returns bars, and not at all when no 1M bars are cached and
\* the collaborator returns none; never more than once.
StaleComputesOnceGivenBars ==
  \A r \in Reqs :
    (Settled(r) /\ req[r].stale)
      => /\ req[r].nCalc <= 1
         /\ req[r].nHistFetch = 0 => req[r].nCalc = 1
         /\ req[r].nHistFetch = 1 => (req[r].nCalc = 1 <=> req[r].nBars > 0)
         /\ req[r].nHistFetch = 1 => (req[r].nCalc = 0 <=> req[r].nBars = 0)

\* a stale entry, no cached bars, no bars from the collaborator: no call
StaleNoBarsNoCompute ==
  \E r \in Reqs :
    /\ Settled(r) /\ req[r].cached # None /\ req[r].age > 300000
    /\ req[r].nHistFetch = 1 /\ req[r].nBars = 0 /\ req[r].nCalc = 0

\* C3: the staleness test of the indicator path is true exactly when the entry
\* is absent or now - lastUpdated > 300000; it is false up to and at 300000 ms
\* after the entry was stored and true from then on while the entry stays.
StalePredicate ==
  /\ \A r \in Reqs :
       Tested(r) => (req[r].stale <=> (req[r].cached = None \/ req[r].age > 300000))
  /\ \A s \in Symbols :
       LET e == technicalIndicators[s]
       IN  e # None =>
             /\ e[1].lastUpdated <= now
             /\ IsStale(e, e[1].lastUpdated, now, TTL_INDICATORS)
                  <=> now - e[1].lastUpdated > 300000

\* one request found no entry, another an entry 300001 ms old: both stale
StaleAbsentAndJustPastTtl ==
  /\ \E r \in Reqs : Tested(r) /\ req[r].cached = None /\ req[r].stale
  /\ \E r \in Reqs : Tested(r) /\ req[r].cached # None /\ req[r].age = 300001
                       /\ req[r].stale

\* C4: in each of the five maps, get under a key returns the value of the
\* latest set under that key, whatever was stored there before, and what
\* "absent" reads as when nothing was set.
GetReturnsLastSet ==
  \A s \in Symbols :
    /\ getStockPrice(stockPrices, s) = lastSet.stockPrices[s]
    /\ getTechnicalIndicators(technicalIndicators, s) = lastSet.technicalIndicators[s]
    /\ getAIRecommendation(aiRecommendations, s) = lastSet.aiRecommendations[s]
    /\ getNews(news, s) = (IF lastSet.news[s] = None THEN <<>> ELSE lastSet.news[s][1])
    /\ \A tf \in Timeframes :
         getHistoricalPrices(historicalPrices, s, tf) =
           (IF lastSet.historicalPrices[<<s, tf>>] = None THEN <<>>
            ELSE lastSet.historicalPrices[<<s, tf>>][1])

\* a set call has replaced a different value, and both timeframes of one
\* symbol hold bars
Overwritten ==
  /\ probe.op = "store" /\ probe.over
  /\ \E s \in Symbols :
       \A tf \in Timeframes : Len(getHistoricalPrices(historicalPrices, s, tf)) > 0

\* C5 as stated: an indicator request that finds the entry stale or absent and
\* gets no bars from the collaborator is answered 404, never the stale entry.
NoBarsIsNotFound ==
  \A r \in Reqs :
    (Settled(r) /\ req[r].stale /\ req[r].nBars = 0) => req[r].status = 404

\* C5: an indicator request that finds the entry stale or absent, has no cached
\* 1M bars and gets no bars from the collaborator makes that one fetch only,
\* computes and writes nothing, and is answered 404 when no entry was cached
\* and 200 with the stale entry when one was.
NoBarsServesWhatIsCached ==
  \A r \in Reqs :
    (Settled(r) /\ req[r].stale /\ req[r].nBars = 0)
      => /\ req[r].nHistFetch = 1
         /\ req[r].nCalc = 0
         /\ req[r].nWrites = 0
         /\ req[r].cached = None => (req[r].status = 404 /\ req[r].body = None)
         /\ req[r].cached # None => (req[r].status = 200 /\ req[r].body = req[r].cached)

\* the stale entry was served after the collaborator returned no bars
StaleServedOnNoBars ==
  \E r \in Reqs :
    /\ Settled(r) /\ req[r].stale /\ req[r].nBars = 0
    /\ req[r].cached # None /\ req[r].status = 200 /\ req[r].body = req[r].cached

\* a snapshot all of whose numbers are numbers
AllNumeric(v) ==
  /\ ~IsNaN(v.rsi)
  /\ ~IsNaN(v.macd.value) /\ ~IsNaN(v.macd.signal) /\ ~IsNaN(v.macd.histogram)
  /\ ~IsNaN(v.movingAverages.ma20) /\ ~IsNaN(v.movingAverages.ma50)
  /\ ~IsNaN(v.movingAverages.ma200)
  /\ ~IsNaN(v.bollingerBands.upper) /\ ~IsNaN(v.bollingerBands.middle)
  /\ ~IsNaN(v.bollingerBands.lower)

\* C6 as stated: the aggregator fails with InsufficientData on an empty bar
\* sequence and returns a snapshot on every other.
EmptyBarsFail ==
  probe.op = "output"
    => /\ probe.bars = <<>> => probe.outcome.kind = "InsufficientData"
       /\ probe.bars # <<>> => probe.outcome.kind = "returned"

\* C6: the aggregator never fails. On an empty bar sequence it returns a
\* snapshot with rsi 50, macd 0 / 0 / 0 and NaN for the three moving averages
\* and the three bands; on every other it returns a snapshot of numbers only.
\* Either snapshot carries the symbol it was given.
AggregatorAlwaysReturns ==
  probe.op = "output"
    => LET v == probe.outcome.value
       IN  /\ probe.outcome.kind = "returned"
           /\ v.symbol = probe.symbol
           /\ probe.bars = <<>> =>
                /\ v.rsi = Num(50)
                /\ v.macd = [value |-> Num(0), signal |-> Num(0), histogram |-> Num(0)]
                /\ IsNaN(v.movingAverages.ma20) /\ IsNaN(v.movingAverages.ma50)
                /\ IsNaN(v.movingAverages.ma200)
                /\ IsNaN(v.bollingerBands.upper) /\ IsNaN(v.bollingerBands.middle)
                /\ IsNaN(v.bollingerBands.lower)
           /\ probe.bars # <<>> => AllNumeric(v)

\* the aggregator has returned on an empty bar sequence
ReturnedOnEmptyBars ==
  /\ probe.op = "output" /\ probe.bars = <<>>
  /\ probe.outcome.kind = "returned" /\ IsNaN(probe.outcome.value.movingAverages.ma20)

\* C7: an indicator request asks the collaborator for bars at most once, and
\* only after finding the entry absent or older than 300000 ms.
AtMostOneFetchWhenStale ==
  \A r \in Reqs :
    req[r].route = "technical"
      => /\ req[r].nHistFetch <= 1
         /\ req[r].nHistFetch = 1
              => (req[r].checked /\ (req[r].cached = None \/ req[r].age > 300000))

\* a request has fetched once on a stale entry and been answered with new bars
FetchedOnceOnStale ==
  \E r \in Reqs :
    /\ Settled(r) /\ req[r].cached # None /\ req[r].age > 300000
    /\ req[r].nHistFetch = 1 /\ req[r].nBars > 0

\* two indicator requests for one symbol that each fetched and each wrote
BothWrote ==
  /\ \A r \in Reqs : Settled(r) /\ req[r].nHistFetch = 1 /\ req[r].nCalc = 1
  /\ req["a"].symbol = req["b"].symbol

\* C8: nothing keeps two indicator requests for one symbol apart: the entry in
\* the cache is always the snapshot of the latest write, and once both have
\* written it is the snapshot one of them was answered with.
LastWriteWins ==
  /\ \A s \in Symbols : technicalIndicators[s] = lastSet.technicalIndicators[s]
  /\ BothWrote => technicalIndicators[req["a"].symbol] \in {req["a"].body, req["b"].body}

\* both found the same entry (or none), both fetched, both wrote, and their
\* snapshots differ
RedundantRefresh ==
  /\ BothWrote
  /\ req["a"].cached = req["b"].cached
  /\ req["a"].stale /\ req["b"].stale
  /\ req["a"].body # req["b"].body

\* C9: the indicator entry under a symbol is at every moment one whole
\* snapshot: it carries that symbol, and all its fields are those the
\* aggregator computes from one non-empty bar sequence.
EntryIsOneSnapshot ==
  \A s \in Symbols :
    LET e == technicalIndicators[s]
    IN  e # None =>
          /\ e[1].symbol = s
          /\ \E bars \in HistResults :
               HasBars(bars) /\ e[1] = Snapshot(bars, s, e[1].lastUpdated)

\* an entry has been replaced by a snapshot of other bars
EntryReplaced ==
  \E r \in Reqs :
    /\ Settled(r) /\ req[r].cached # None /\ req[r].nCalc = 1
    /\ technicalIndicators[req[r].symbol] # None
    /\ technicalIndicators[req[r].symbol][1].macd # req[r].cached[1].macd

\* C10 as stated: a news request arriving more than 900000 ms after the news
\* entry was stored fetches fresh news from the collaborator.
NewsExpires ==
  \A r \in Reqs :
    (req[r].route = "news" /\ req[r].pc = "done" /\ req[r].status = 200
       /\ req[r].age > 900000)
      => req[r].nNewsFetch >= 1

\* C11: the indicator entry of a symbol changes only in a step of a request
\* for that symbol that found the entry absent or stale (an indicator request
\* after its staleness test, a recommendation request that read no entry);
\* the passing of time changes no entry of the store, and the store changes
\* only while a request is being handled.
RefreshIsLazy ==
  [][/\ \A s \in Symbols :
          technicalIndicators'[s] # technicalIndicators[s]
            => \E r \in Reqs :
                 /\ req[r].symbol = s
                 /\ req'[r].nWrites = req[r].nWrites + 1
                 /\ \/ /\ req[r].route = "technical"
                       /\ req[r].checked
                       /\ (req[r].cached = None \/ req[r].age > 300000)
                    \/ /\ req[r].route = "recommendation"
                       /\ req[r].pc = "r_fetch_hist"
                       /\ req[r].indicators = None
     /\ now' # now => store' = store
     /\ store' # store => \E r \in Reqs : ~Free(r)]_vars

\* an indicator request has just replaced a stale entry while a
\* recommendation request has just stored the entry it found missing
BothKindsRefreshed ==
  /\ \E r \in Reqs :
       /\ req[r].route = "technical" /\ req[r].pc = "t_set_ind"
       /\ req[r].cached # None /\ req[r].age > 300000
  /\ \E r \in Reqs : req[r].route = "recommendation" /\ req[r].pc = "r_set_ind"

(* ------------------------------------------------------------------ *)
(* The indicator functions on their own: any series of closes         *)
(* ------------------------------------------------------------------ *)

\* the longest series handed to an indicator function
MaxLen == 22

\* the longest series of closes quoted in hundredths
MaxCents == 3

\* n closes from base: the first k changes are d1, the later ones d2
Ramp(base, n, k, d1, d2) ==
  [i \in 1..n |->
     Num(base + (IF i - 1 <= k THEN (i - 1) * d1 ELSE k * d1 + (i - 1 - k) * d2))]

\* n closes from base that go up by u and down by d in turn
Zig(base, n, u, d) ==
  [i \in 1..n |-> Num(base + (i \div 2) * u - ((i - 1) \div 2) * d)]

Slopes == {-1, 0, 1}

\* rising, falling, flat and turning series of every length up to MaxLen
Ramps ==
  {Ramp(30, n, k, d1, d2) : n \in 0..MaxLen, k \in 0..MaxLen, d1 \in Slopes, d2 \in Slopes}

\* series that are flat but for their last closes
Kinks ==
  UNION {{Ramp(30, n, k, 0, d) : k \in {j \in 0..n : j + 4 > n}, d \in Slopes} :
           n \in 0..MaxLen}

Zigs == {Zig(30, n, u, d) : n \in 0..MaxLen, u \in {1, 2}, d \in {1, 2}}

\* series longer than the 50 and 200 windows
LongRamps ==
  {Ramp(300, n, k, d1, d2) : n \in {51, 201}, k \in {0, 40}, d1 \in Slopes, d2 \in Slopes}

\* closes a hundredth or two apart
\* a move that ended before the 20-close window began: the window is flat
Steps == UNION {{Ramp(30, n, k, d, 0) : k \in 1..(n - BB_PERIOD), d \in Slopes} : n \in (BB_PERIOD + 1)..MaxLen}

Cents == {[n |-> 1, d |-> 1], [n |-> 101, d |-> 100], [n |-> 103, d |-> 100]}

CentSeqs == UNION {[1..n -> Cents] : n \in 0..MaxCents}

\* closes 10, 11, ..., 20
Rising11 == Ramp(10, 11, 0, 1, 1)

Periods == {1, 2, 20, 50, 200}

\* periods calculateEMA is called with: 12 and 26 by calculateMACD, and the
\* smallest ones
EmaPeriods == {1, 2, 3, 12, 26}

\* what each function is called with
FnInputs ==
  [rsi            |-> Ramps \cup Zigs \cup {Rising11},
   sma            |-> Ramps \cup CentSeqs,
   movingAverages |-> Ramps \cup LongRamps,
   bollinger      |-> Kinks \cup Steps \cup Zigs \cup CentSeqs,
   macd           |-> {ToNums(b) : b \in BarSeqs},
   ema            |-> {ToNums(b) : b \in BarSeqs}]

\* how a call of an indicator function ends: none of them has a throw
\* statement, each path ends in a return
Returned(v) == [kind |-> "returned", value |-> v]

InitFn ==
  /\ Fresh
  /\ \E fn \in DOMAIN FnInputs :
       \E prices \in FnInputs[fn], period \in (IF fn = "sma" THEN Periods
                                        ELSE IF fn = "ema" THEN EmaPeriods ELSE {0}) :
         probe = [op |-> "input", fn |-> fn, prices |-> prices, period |-> period]

Applied(fn, v) ==
  /\ probe.op = "input"
  /\ probe.fn = fn
  /\ probe' = [op |-> "output", fn |-> fn, prices |-> probe.prices,
               period |-> probe.period, outcome |-> Returned(v)]
  /\ UNCHANGED <<now, ticks, store, req, lastSet, started>>

\* one action per function
RsiApply == Applied("rsi", calculateRSI(probe.prices))

SmaApply == Applied("sma", calculateSMA(probe.prices, probe.period))

MovingAveragesApply == Applied("movingAverages", movingAverages(probe.prices))

BollingerApply == Applied("bollinger", calculateBollingerBands(probe.prices))

MacdApply == Applied("macd", calculateMACD(probe.prices))

EmaApply == Applied("ema", calculateEMA(probe.prices, probe.period))

NextFn ==
  \/ RsiApply
  \/ SmaApply
  \/ MovingAveragesApply
  \/ BollingerApply
  \/ MacdApply
  \/ EmaApply

SpecFn == InitFn /\ [][NextFn]_vars

\* the result of a call of fn that has returned
Out(fn) == probe.op = "output" /\ probe.fn = fn

StrictlyIncreasing(prices) == \A i \in 1..(Len(prices) - 1) : Lt(prices[i], prices[i + 1])

StrictlyDecreasing(prices) == \A i \in 1..(Len(prices) - 1) : Lt(prices[i + 1], prices[i])

\* C12: for every series of closes, of any length, calculateRSI returns a
\* number v with 0 <= v <= 100.
RsiInRange ==
  Out("rsi")
    => /\ probe.outcome.kind = "returned"
       /\ ~IsNaN(probe.outcome.value)
       /\ Le(Num(0), probe.outcome.value)
       /\ Le(probe.outcome.value, Num(100))

\* a series with gains and losses gave a value strictly between 50 and 100
RsiInside ==
  /\ Out("rsi") /\ Len(probe.prices) > 15
  /\ Lt(Num(50), probe.outcome.value) /\ Lt(probe.outcome.value, Num(100))

\* C13: for every series of fewer than 15 closes, whatever its values,
\* calculateRSI returns exactly 50 and does not fail.
RsiNeutralWhenShort ==
  (Out("rsi") /\ Len(probe.prices) < 15)
    => probe.outcome = Returned(Num(50))

\* the rising series 10, 11, ..., 20 gave 50
RsiNeutralOnRising11 ==
  Out("rsi") /\ probe.prices = Rising11 /\ probe.outcome.value = Num(50)

\* C15: for every series of at least 15 closes, calculateRSI returns 100 when
\* the series is strictly increasing and 0 when it is strictly decreasing.
RsiAtExtremes ==
  (Out("rsi") /\ Len(probe.prices) >= 15)
    => /\ StrictlyIncreasing(probe.prices) => probe.outcome.value = Num(100)
       /\ StrictlyDecreasing(probe.prices) => probe.outcome.value = Num(0)

\* a strictly decreasing series of more than 15 closes gave 0
RsiZeroOnFall ==
  /\ Out("rsi") /\ Len(probe.prices) > 15 /\ StrictlyDecreasing(probe.prices)
  /\ probe.outcome.value = Num(0)

\* C14 as stated: on 30 bars that all close at 100 the snapshot has the bands
\* upper 100, middle 100, lower 100 and rsi 50.
FlatSeriesIsNeutral ==
  (probe.op = "output" /\ probe.bars = [i \in 1..30 |-> 100])
    => LET v == probe.outcome.value
       IN  /\ probe.outcome.kind = "returned"
           /\ v.bollingerBands = [upper |-> Num(100), middle |-> Num(100), lower |-> Num(100)]
           /\ v.rsi = Num(50)

\* the closes calculateBollingerBands looks at, and their variance as the code
\* computes it
Window(prices) == SliceLast(prices, BB_PERIOD)

Variance(prices) == Div(SumSqDev(Window(prices), calculateSMA(prices, BB_PERIOD)), Num(BB_PERIOD))

AllSame(s) == \A i, j \in 1..Len(s) : s[i] = s[j]

\* C16: for every non-empty series of closes, shorter or longer than the
\* window, the three rounded bands are numbers with lower <= middle <= upper.
BandsOrdered ==
  (Out("bollinger") /\ probe.prices # <<>>)
    => LET b == probe.outcome.value
       IN  /\ probe.outcome.kind = "returned"
           /\ ~IsNaN(b.lower) /\ ~IsNaN(b.middle) /\ ~IsNaN(b.upper)
           /\ Le(b.lower, b.middle) /\ Le(b.middle, b.upper)

\* bands of a series longer than the window, apart from each other
BandsApartOnLongSeries ==
  /\ Out("bollinger") /\ Len(probe.prices) > BB_PERIOD
  /\ Lt(probe.outcome.value.lower, probe.outcome.value.middle)
  /\ Lt(probe.outcome.value.middle, probe.outcome.value.upper)

TrailingMean(s, k) == Div(SumRange(s, Len(s) - k + 1, Len(s)), Num(k))

\* C18: for non-empty closes, calculateSMA returns the mean of the last
\* min(period, length) closes, which for period >= length is the mean of the
\* whole series; ma20, ma50 and ma200 are the means of the trailing
\* min(20, length), min(50, length) and min(200, length) closes.
SmaIsTrailingMean ==
  LET closes == probe.prices
      len    == Len(closes)
  IN  /\ (Out("sma") /\ closes # <<>>)
           => /\ probe.outcome = Returned(TrailingMean(closes, Min(probe.period, len)))
              /\ probe.period >= len => probe.outcome.value = TrailingMean(closes, len)
      /\ (Out("movingAverages") /\ closes # <<>>)
           => /\ probe.outcome.kind = "returned"
              /\ probe.outcome.value.ma20 = TrailingMean(closes, Min(20, len))
              /\ probe.outcome.value.ma50 = TrailingMean(closes, Min(50, len))
              /\ probe.outcome.value.ma200 = TrailingMean(closes, Min(200, len))

\* a mean over a window shorter than the series, different from the mean of
\* the whole series and from the mean of as many closes at its start
SmaOverWindowOnly ==
  /\ Out("sma") /\ probe.period < Len(probe.prices)
  /\ probe.outcome.value = TrailingMean(probe.prices, probe.period)
  /\ probe.outcome.value # TrailingMean(probe.prices, Len(probe.prices))
  /\ probe.outcome.value # Div(SumRange(probe.prices, 1, probe.period), Num(probe.period))

\* C19 as stated: on an empty series of closes, sma, bollingerBands and macd
\* each end in the EmptySeries error.
EmptySeriesFails ==
  (probe.op = "output" /\ probe.fn \in {"sma", "bollinger", "macd"} /\ probe.prices = <<>>)
    => probe.outcome.kind = "EmptySeries"

\* C19: on an empty series of closes none of the three fails: calculateSMA
\* returns NaN, calculateBollingerBands returns NaN for upper, middle and
\* lower, and calculateMACD returns value 0, signal 0 and histogram 0.
EmptySeriesReturns ==
  (probe.op = "output" /\ probe.prices = <<>>)
    => /\ probe.fn = "sma" => probe.outcome = Returned(NaN)
       /\ probe.fn = "bollinger"
            => probe.outcome = Returned([upper |-> NaN, middle |-> NaN, lower |-> NaN])
       /\ probe.fn = "macd"
            => probe.outcome = Returned([value |-> Num(0), signal |-> Num(0), histogram |-> Num(0)])

\* calculateMACD has returned three zeros on an empty series
MacdZeroOnEmpty ==
  /\ Out("macd") /\ probe.prices = <<>>
  /\ probe.outcome.kind = "returned" /\ probe.outcome.value.value = Num(0)

\* the exponential moving average of the first i closes, for i >= 1:
\* ema(1) = closes[1], ema(i) = closes[i] * k + ema(i - 1) * (1 - k), k = 2 / (period + 1)
RECURSIVE EmaAt(_, _, _)
EmaAt(closes, i, period) ==
  IF i = 1 THEN closes[1]
  ELSE Add(Mul(closes[i], Rat(2, period + 1)),
           Mul(EmaAt(closes, i - 1, period), Rat(period - 1, period + 1)))

\* ema(closes, 12) - ema(closes, 26), not rounded
MacdLine(closes) == Sub(EmaAt(closes, Len(closes), 12), EmaAt(closes, Len(closes), 26))

\* C20 as stated: for non-empty closes the returned fields satisfy
\* signal = 0.8 * value and histogram = 0.2 * value.
MacdFractionsOfValue ==
  (Out("macd") /\ probe.prices # <<>>)
    => LET m == probe.outcome.value
       IN  /\ m.signal = Mul(Rat(8, 10), m.value)
           /\ m.histogram = Mul(Rat(2, 10), m.value)

\* C20: for non-empty closes, with line = ema(closes, 12) - ema(closes, 26)
\* not rounded, the returned value, signal and histogram are line, 0.8 * line
\* and 0.2 * line, each rounded to two decimals on its own; signal and
\* histogram are therefore within 0.01 of 0.8 * value and 0.2 * value, not
\* always equal to them.
MacdFractionsOfLine ==
  (Out("macd") /\ probe.prices # <<>>)
    => LET m    == probe.outcome.value
           line == MacdLine(probe.prices)
       IN  /\ probe.outcome.kind = "returned"
           /\ m.value = ToFixed2(line)
           /\ m.signal = ToFixed2(Mul(Rat(8, 10), line))
           /\ m.histogram = ToFixed2(Mul(Rat(2, 10), line))
           /\ Lt(Sub(m.signal, Mul(Rat(8, 10), m.value)), Rat(1, 100))
           /\ Lt(Sub(Mul(Rat(8, 10), m.value), m.signal), Rat(1, 100))
           /\ Lt(Sub(m.histogram, Mul(Rat(2, 10), m.value)), Rat(1, 100))
           /\ Lt(Sub(Mul(Rat(2, 10), m.value), m.histogram), Rat(1, 100))

\* a returned signal that is not 0.8 times the returned value
MacdSignalOffValue ==
  /\ Out("macd") /\ probe.prices # <<>>
  /\ probe.outcome.value.signal # Mul(Rat(8, 10), probe.outcome.value.value)

\* prices.slice().reverse()
Reverse(s) == [i \in 1..Len(s) |-> s[Len(s) + 1 - i]]

\* C21 as stated: for every series, reversing it changes the result of
\* calculateEMA.
EmaChangesOnReversal ==
  Out("ema") => calculateEMA(Reverse(probe.prices), probe.period) # probe.outcome.value

\* C21: reversing the series changes the result of calculateEMA for some
\* series and not for others: a series that reads the same in both directions
\* (empty, one close, flat, 1 3 1) gives the same result, and so do two closes
\* with period 3 (k = 1/2); two different closes with any other period give a
\* different result.
EmaChangesUnlessSymmetric ==
  Out("ema")
    => LET back == calculateEMA(Reverse(probe.prices), probe.period)
       IN  /\ Reverse(probe.prices) = probe.prices => back = probe.outcome.value
           /\ (Len(probe.prices) = 2 /\ probe.period = 3) => back = probe.outcome.value
           /\ (Len(probe.prices) = 2 /\ probe.period # 3 /\ probe.prices[1] # probe.prices[2])
                => back # probe.outcome.value

\* a series that differs from its reversal and has the same average
EmaSameOnReversal ==
  /\ Out("ema") /\ Reverse(probe.prices) # probe.prices
  /\ calculateEMA(Reverse(probe.prices), probe.period) = probe.outcome.value

\* the series with another first close
FirstChanged(prices) == [prices EXCEPT ![1] = Add(prices[1], Num(1))]

\* C25 as stated: for non-empty closes calculateEMA is the fold seeded with
\* the first close and applied over all the others, a single close is
\* returned as it is, and the result depends on closes older than the last
\* period ones.
EmaUsesWholeHistory ==
  (Out("ema") /\ probe.prices # <<>>)
    => /\ probe.outcome = Returned(EmaAt(probe.prices, Len(probe.prices), probe.period))
       /\ Len(probe.prices) = 1 => probe.outcome.value = probe.prices[1]
       /\ Len(probe.prices) > probe.period
            => calculateEMA(FirstChanged(probe.prices), probe.period) # probe.outcome.value

\* C25: for non-empty closes calculateEMA is the fold seeded with the first
\* close and applied left to right over all the others with k = 2 / (period + 1);
\* a single close is returned as it is; for period >= 2 the result depends on
\* the first close however long the series, and for period 1 (k = 1) it is
\* the last close alone.
EmaIsFoldOverAll ==
  (Out("ema") /\ probe.prices # <<>>)
    => /\ probe.outcome = Returned(EmaAt(probe.prices, Len(probe.prices), probe.period))
       /\ Len(probe.prices) = 1 => probe.outcome.value = probe.prices[1]
       /\ (Len(probe.prices) > probe.period /\ probe.period >= 2)
            => calculateEMA(FirstChanged(probe.prices), probe.period) # probe.outcome.value
       /\ probe.period = 1
            => /\ probe.outcome.value = probe.prices[Len(probe.prices)]
               /\ calculateEMA(FirstChanged(probe.prices), 1) = probe.outcome.value
                    \/ Len(probe.prices) = 1

\* period 1 on several closes: the last close, whatever the first
EmaOfPeriodOneIsLastClose ==
  /\ Out("ema") /\ probe.period = 1 /\ Len(probe.prices) > 1
  /\ probe.prices[1] # probe.prices[Len(probe.prices)]
  /\ probe.outcome.value = probe.prices[Len(probe.prices)]

\* the sum of the rises (sgn = 1) or of the falls (sgn = -1), as positive
\* amounts, among the differences closes[i + 1] - closes[i] for i in lo..hi
RECURSIVE Moves(_, _, _, _)
Moves(closes, lo, hi, sgn) ==
  IF lo > hi THEN Num(0)
  ELSE LET d == Sub(closes[hi + 1], closes[hi])
           m == IF sgn > 0 THEN d ELSE Sub(Num(0), d)
       IN  IF Lt(Num(0), m) THEN Add(m, Moves(closes, lo, hi - 1, sgn))
           ELSE Moves(closes, lo, hi - 1, sgn)

\* C23: for at least 15 closes, with G the sum of the rises and L the sum of
\* the falls among the last 14 differences, calculateRSI returns 100 when
\* L = 0 (also when G = 0) and 100 * G / (G + L) otherwise; the closes before
\* the last 15 do not matter.
RsiFromLastChanges ==
  (Out("rsi") /\ Len(probe.prices) >= RSI_PERIOD + 1)
    => LET n == Len(probe.prices)
           G == Moves(probe.prices, n - RSI_PERIOD, n - 1, 1)
           L == Moves(probe.prices, n - RSI_PERIOD, n - 1, -1)
       IN  /\ probe.outcome = Returned(IF L = Num(0) THEN Num(100)
                                       ELSE Div(Mul(Num(100), G), Add(G, L)))
           /\ probe.outcome.value = calculateRSI(SliceLast(probe.prices, RSI_PERIOD + 1))

\* rises and falls in the last 14 differences, and an older difference of
\* another size
RsiOfMixedWindow ==
  /\ Out("rsi") /\ Len(probe.prices) > RSI_PERIOD + 1
  /\ Lt(Num(0), probe.outcome.value) /\ Lt(probe.outcome.value, Num(100))
  /\ Sub(probe.prices[2], probe.prices[1])
       # Sub(probe.prices[Len(probe.prices)], probe.prices[Len(probe.prices) - 1])

\* the population variance of the closes of the window: the mean of their
\* squared deviations from the window mean
PopulationVariance(prices) ==
  Div(SumSqDev(Window(prices), TrailingMean(prices, Len(Window(prices)))),
      Num(Len(Window(prices))))

\* C24 as stated: for non-empty closes, including fewer than 20, the bands
\* are the window mean and the window mean plus and minus twice the
\* population standard deviation of the closes of the window, each rounded to
\* two decimals.
BandsFromPopulationDeviation ==
  (Out("bollinger") /\ probe.prices # <<>>)
    => LET mean == TrailingMean(probe.prices, Len(Window(probe.prices)))
           var  == PopulationVariance(probe.prices)
       IN  probe.outcome = Returned([upper  |-> BandEdge(mean, var, 1),
                                     middle |-> ToFixed2(mean),
                                     lower  |-> BandEdge(mean, var, -1)])

Bars1M(m, s) ==
  IF m[s] = None THEN <<>>
  ELSE IF m[s][1]["1M"] = None THEN <<>> ELSE m[s][1]["1M"][1]

\* the numeric fields of a snapshot
Numbers(v) == [v EXCEPT !.lastUpdated = 0]

\* an indicator request that found its entry stale and has replaced it with a
\* snapshot of the cached bars
RefreshedFromCache(r) ==
  /\ Tested(r) /\ req[r].pc = "t_set_ind"
  /\ req[r].cached # None /\ req[r].nHistFetch = 0

\* C26 as stated: cached 1M bars never change, a stale indicator refresh that
\* finds them asks the collaborator for nothing, and the snapshot it stores
\* has the numeric fields of the snapshot it replaces.
CachedBarsKeepSnapshot ==
  /\ \A r \in Reqs :
       /\ (Tested(r) /\ req[r].nHistFetch > 0 /\ Bars1M(historicalPrices, req[r].symbol) # <<>>)
            => req[r].nBars > 0
       /\ RefreshedFromCache(r)
            => Numbers(req[r].indicators[1]) = Numbers(req[r].cached[1])

\* C26: with requests handled one after the other, 1M bars once cached are
\* never replaced; an indicator request that finds its entry stale and the
\* bars cached asks the collaborator for nothing and stores the snapshot of
\* the cached bars stamped with the current time. (The replaced snapshot need
\* not have come from the same bars.)
CachedBarsAreFinal ==
  [][/\ \A s \in Symbols :
          Bars1M(historicalPrices, s) # <<>>
            => Bars1M(historicalPrices', s) = Bars1M(historicalPrices, s)
     /\ \A r \in Reqs :
          /\ (req'[r].route = "technical" /\ req'[r].checked /\ req'[r].nHistFetch > 0
                /\ Bars1M(historicalPrices', req'[r].symbol) # <<>>)
               => req'[r].nBars > 0
          /\ (req[r].pc = "t_got_hist" /\ req'[r].pc = "t_set_ind")
               => /\ req'[r].nHistFetch = 0
                  /\ req'[r].indicators[1]
                       = Snapshot(Bars1M(historicalPrices, req[r].symbol), req[r].symbol, now)
                  /\ technicalIndicators'[req[r].symbol] = req'[r].indicators]_vars

\* a refresh from the cached bars has replaced a snapshot that /recommendation
\* had computed from other bars: the numeric fields have changed
RefreshChangedNumbers ==
  \E r \in Reqs :
    /\ RefreshedFromCache(r) /\ req[r].age > TTL_INDICATORS
    /\ Numbers(req[r].indicators[1]) # Numbers(req[r].cached[1])

\* C27: every snapshot in the cache is the snapshot of a non-empty bar
\* sequence the collaborator returned, whichever route stored it, and none of
\* its moving averages, bands or other numbers is NaN.
CachedSnapshotsHaveBars ==
  \A s \in Symbols :
    technicalIndicators[s] # None
      => LET v == technicalIndicators[s][1]
         IN  /\ AllNumeric(v)
             /\ v.symbol = s
             /\ \E bars \in HistResults :
                  Len(bars) > 0 /\ Numbers(v) = Numbers(Snapshot(bars, s, 0))

\* both routes have computed and stored a snapshot
BothRoutesStored ==
  \E r, o \in Reqs :
    /\ req[r].route = "technical" /\ req[r].nCalc = 1
    /\ req[o].route = "recommendation" /\ req[o].nCalc = 1
    /\ technicalIndicators[req[r].symbol] # None

\* C28: under every interleaving of two requests, an indicator entry once
\* present stays present and its lastUpdated never decreases from one state
\* to the next; the clock itself never goes back.
LastUpdatedNeverDecreases ==
  [][/\ now' >= now
     /\ \A s \in Symbols :
          technicalIndicators[s] # None
            => /\ technicalIndicators'[s] # None
               /\ technicalIndicators'[s][1].lastUpdated
                    >= technicalIndicators[s][1].lastUpdated]_vars

\* two overlapping requests have each stored a snapshot, at different times,
\* and the later one is in the cache
LaterSnapshotStays ==
  \E r, o \in Reqs :
    /\ Settled(o) /\ req[o].nCalc = 1 /\ req[o].stale
    /\ Tested(r) /\ req[r].pc = "t_set_ind" /\ req[r].cached = req[o].cached
    /\ req[r].symbol = req[o].symbol
    /\ req[r].indicators[1].lastUpdated > req[o].body[1].lastUpdated
    /\ technicalIndicators[req[r].symbol] = req[r].indicators

\* a quote request that has been answered after its staleness test
PriceSettled(r) == req[r].route = "price" /\ req[r].checked /\ req[r].pc = "done"

MaxAlerts == 2

MaxChecks == 2

\* the runs of checkAlerts that can be in flight at once
CheckIds == {"c1", "c2"}

\* the target typed into the form (0 is rejected), and the prices the quote
\* route answers with
Targets == {0, 100}

AlertPrices == {90, 110}

\* how a fetch of /api/stock/:symbol ends: it throws, answers without ok, or
\* answers ok
FetchOutcomes == {"throws", "notOk", "ok"}

NoCheck == [pc |-> "idle", updatedAlerts |-> <<>>, i |-> 0, hasUpdates |-> FALSE]

\* the ids of the alerts of a list
AlertIds(list) == {list[k].id : k \in 1..Len(list)}

\* prev.filter(alert => alert.id !== id)
RECURSIVE WithoutAlert(_, _)
WithoutAlert(list, id) ==
  IF list = <<>> THEN <<>>
  ELSE IF list[1].id = id THEN WithoutAlert(Tail(list), id)
       ELSE <<list[1]>> \o WithoutAlert(Tail(list), id)

\* [alertMessage, ...prev.slice(0, 4)]
Notify(prev, id) == <<id>> \o (IF Len(prev) > 4 THEN SubSeq(prev, 1, 4) ELSE prev)

\* the loop of checkAlerts from index i on: the first alert that is active
\* and not triggered is fetched; 0 when there is none left
NextPending(list, i) ==
  LET S == {k \in i..Len(list) : list[k].isActive /\ ~list[k].isTriggered}
  IN  IF S = {} THEN 0 ELSE CHOOSE k \in S : \A o \in S : k <= o

\* the widget state: the alerts and notifications of useState, the runs of
\* checkAlerts with their locals, and a record of what the user did
Widget(w) ==
  /\ probe.op = "alerts"
  /\ probe' = w
  /\ UNCHANGED <<now, ticks, store, req, lastSet, started>>

InitAlerts ==
  /\ Fresh
  /\ probe = [op |-> "alerts", alerts |-> <<>>, notifications |-> <<>>,
              checks |-> [c \in CheckIds |-> NoCheck],
              nextId |-> 1, nChecks |-> 0, added |-> {}, removed |-> {}]

\* addAlert: setAlerts(prev => [...prev, alert]); a missing or non-positive
\* target returns early
addAlert ==
  /\ probe.op = "alerts"
  /\ probe.nextId <= MaxAlerts
  /\ \E targetPrice \in Targets :
       /\ targetPrice > 0
       /\ LET alert == [id |-> probe.nextId, targetPrice |-> targetPrice,
                        currentPrice |-> 0, isActive |-> TRUE, isTriggered |-> FALSE]
          IN  Widget([probe EXCEPT !.alerts = Append(probe.alerts, alert),
                                   !.nextId = probe.nextId + 1,
                                   !.added = probe.added \cup {alert.id}])

\* removeAlert(id), from the row of a listed alert
removeAlert ==
  /\ probe.op = "alerts"
  /\ \E id \in AlertIds(probe.alerts) :
       Widget([probe EXCEPT !.alerts = WithoutAlert(probe.alerts, id),
                            !.removed = probe.removed \cup {id}])

\* toggleAlert(id)
toggleAlert ==
  /\ probe.op = "alerts"
  /\ \E k \in 1..Len(probe.alerts) :
       Widget([probe EXCEPT !.alerts[k].isActive = ~probe.alerts[k].isActive,
                            !.alerts[k].isTriggered = FALSE])

\* clearNotifications
clearNotifications ==
  /\ probe.op = "alerts"
  /\ probe.notifications # <<>>
  /\ Widget([probe EXCEPT !.notifications = <<>>])

\* checkAlerts runs on from index i without yielding: to the fetch of the
\* next pending alert, or to its end, where setAlerts(updatedAlerts) replaces
\* the list when hasUpdates is set
CheckOn(w, c, i) ==
  LET run == w.checks[c]
      k   == NextPending(run.updatedAlerts, i)
  IN  IF k # 0 THEN [w EXCEPT !.checks[c].pc = "fetching", !.checks[c].i = k]
      ELSE [w EXCEPT !.checks[c] = NoCheck,
                     !.alerts = IF run.hasUpdates THEN run.updatedAlerts ELSE w.alerts]

\* the interval fires: checkAlerts copies the alerts of the latest render
CheckStart(c) ==
  /\ probe.op = "alerts"
  /\ probe.checks[c].pc = "idle"
  /\ probe.nChecks < MaxChecks
  /\ Widget(CheckOn([probe EXCEPT !.checks[c].updatedAlerts = probe.alerts,
                                  !.nChecks = probe.nChecks + 1], c, 1))

\* await fetch(...) resolves or throws
CheckFetched(c) ==
  /\ probe.op = "alerts"
  /\ probe.checks[c].pc = "fetching"
  /\ \E outcome \in FetchOutcomes :
       IF outcome = "ok"
       THEN Widget([probe EXCEPT !.checks[c].pc = "json"])
       ELSE Widget(CheckOn(probe, c, probe.checks[c].i + 1))

\* await response.json() resolves: the copy gets the price and, when the
\* target is reached (alertType above), the trigger; hasUpdates either way
CheckJson(c) ==
  /\ probe.op = "alerts"
  /\ probe.checks[c].pc = "json"
  /\ \E currentPrice \in AlertPrices :
       LET run           == probe.checks[c]
           alert         == run.updatedAlerts[run.i]
           shouldTrigger == currentPrice >= alert.targetPrice
           w == [probe EXCEPT
                   !.checks[c].updatedAlerts[run.i] =
                      [alert EXCEPT !.currentPrice = currentPrice,
                                    !.isTriggered = shouldTrigger],
                   !.checks[c].hasUpdates = TRUE,
                   !.notifications = IF shouldTrigger THEN Notify(probe.notifications, alert.id)
                                     ELSE probe.notifications]
       IN  Widget(CheckOn(w, c, run.i + 1))

NextAlerts ==
  \/ addAlert
  \/ removeAlert
  \/ toggleAlert
  \/ clearNotifications
  \/ \E c \in CheckIds : CheckStart(c)
  \/ \E c \in CheckIds : CheckFetched(c)
  \/ \E c \in CheckIds : CheckJson(c)

SpecAlerts == InitAlerts /\ [][NextAlerts]_vars

\* C30 as stated: under every interleaving of user actions with the runs of
\* checkAlerts, the listed alerts are exactly those added and not removed: a
\* removed alert never reappears and an added one is never dropped.
AlertsSurviveChecks ==
  probe.op = "alerts" => AlertIds(probe.alerts) = probe.added \ probe.removed

====
